---- MODULE Spec2Model ----
(***************************************************************************)
(* A model of mu_json, the in-place JSON tokenizer of rdpoor/mu_json       *)
(* (src/src/mu_json.c, src/src/mu_json.h).                                 *)
(*                                                                         *)
(* One call of mu_json_parse_str / mu_json_parse_buffer is one action.     *)
(* The recursive descent of the C code is modelled by a machine with an    *)
(* explicit stack of container frames (one frame per active parse_object / *)
(* parse_array call); the scalar parsers are operators on the parser_t     *)
(* record.  Bytes are the integers 0..255, an input buffer is a list of    *)
(* repeated segments, the token store is an array of token records whose   *)
(* bit-fields keep their declared widths.                                  *)
(***************************************************************************)
EXTENDS Integers, Sequences, FiniteSets, TLC

\* ------------------------------------------------------------------------
\* Program constants
\* ------------------------------------------------------------------------

\* mu_json_err_t
MU_JSON_ERR_NONE == 0
MU_JSON_ERR_BAD_FORMAT == -1
MU_JSON_ERR_INCOMPLETE == -2
MU_JSON_ERR_NO_ENTITIES == -3
MU_JSON_ERR_STRAY_INPUT == -4
MU_JSON_ERR_NOT_ENOUGH_TOKENS == -5
MU_JSON_ERR_BAD_ARGUMENT == -6
MU_JSON_ERR_TOO_DEEP == -7
MU_JSON_ERR_NO_MULTIBYTE == -8
MU_JSON_ERR_INTERNAL == -9

\* mu_json_token_type_t
MU_JSON_TOKEN_TYPE_UNKNOWN == 0
MU_JSON_TOKEN_TYPE_ARRAY == 1
MU_JSON_TOKEN_TYPE_OBJECT == 2
MU_JSON_TOKEN_TYPE_STRING == 3
MU_JSON_TOKEN_TYPE_NUMBER == 4
MU_JSON_TOKEN_TYPE_INTEGER == 5
MU_JSON_TOKEN_TYPE_TRUE == 6
MU_JSON_TOKEN_TYPE_FALSE == 7
MU_JSON_TOKEN_TYPE_NULL == 8

\* widths of the bit-fields of mu_json_token_t
STR_LEN_BITS == 16
TYPE_BITS == 4
LEVEL_BITS == 11
IS_LAST_BITS == 1

\* the null pointer, as a token's str field (an offset into the input otherwise)
NULL == -1

\* the bytes the parser names
Ch == [nul |-> 0, ht |-> 9, lf |-> 10, cr |-> 13, sp |-> 32, dq |-> 34,
       plus |-> 43, comma |-> 44, minus |-> 45, dot |-> 46, slash |-> 47,
       d0 |-> 48, d9 |-> 57, colon |-> 58, uA |-> 65, uE |-> 69, uF |-> 70,
       lbracket |-> 91, bslash |-> 92, rbracket |-> 93,
       a |-> 97, b |-> 98, e |-> 101, f |-> 102, l |-> 108, n |-> 110,
       r |-> 114, s |-> 115, t |-> 116, u |-> 117,
       lbrace |-> 123, rbrace |-> 125]

Pow2(n) == IF n = 0 THEN 1 ELSE 2 ^ n

\* the least k with 2^k >= n
RECURSIVE CeilLog2(_)
CeilLog2(n) == IF n <= 1 THEN 0 ELSE 1 + CeilLog2((n + 1) \div 2)

\* ------------------------------------------------------------------------
\* Input buffers: a list of segments, each a byte string repeated n times
\* ------------------------------------------------------------------------

Seg(bytes, times) == [bytes |-> bytes, times |-> times]

SegLen(sg) == Len(sg.bytes) * sg.times

RECURSIVE BufLen(_)
BufLen(buf) == IF buf = <<>> THEN 0 ELSE SegLen(Head(buf)) + BufLen(Tail(buf))

\* the byte at offset i of the buffer, 0 <= i < BufLen(buf)
RECURSIVE Byte(_, _)
Byte(buf, i) ==
    LET sg == Head(buf) IN
    IF i < SegLen(sg) THEN sg.bytes[(i % Len(sg.bytes)) + 1]
    ELSE Byte(Tail(buf), i - SegLen(sg))

\* ------------------------------------------------------------------------
\* parser_t and its inline helpers
\* ------------------------------------------------------------------------

at_eos(p) == p.str_pos >= p.str_len

peek_char(p) == Byte(p.str, p.str_pos)

get_char(p) == [p EXCEPT !.str_pos = @ + 1]

ref_char(p) == p.str_pos

is_digit(ch) == (ch >= Ch.d0) /\ (ch <= Ch.d9)

\* the whitespace of isspace(): form feed and vertical tab as well
is_whitespace_isspace(ch) == (ch = Ch.sp) \/ (ch >= Ch.ht /\ ch <= Ch.cr)

is_whitespace(ch) == (ch = Ch.sp) \/ (ch = Ch.ht) \/ (ch = Ch.lf) \/ (ch = Ch.cr)

\* a test of the high bit that misses the byte 0x80
is_multibyte_above(ch) == ch > 128

\* the test (ch & 0x80) of parse_element and parse_string
is_multibyte(ch) == ch >= 128

\* up to 2^k iterations of the loop of skip_whitespace
RECURSIVE skip_whitespace_loop(_, _)
skip_whitespace_loop(p, k) ==
    IF at_eos(p) \/ ~is_whitespace(peek_char(p)) THEN p
    ELSE IF k = 0 THEN get_char(p)
    ELSE LET q == skip_whitespace_loop(p, k - 1) IN skip_whitespace_loop(q, k - 1)

skip_whitespace(p) == skip_whitespace_loop(p, CeilLog2(p.str_len - p.str_pos + 1))

\* ------------------------------------------------------------------------
\* Tokens
\* ------------------------------------------------------------------------

ZeroToken == [str |-> NULL, str_len |-> 0, type |-> 0, level |-> 0, is_last |-> 0]

set_token_string(tok, string) == [tok EXCEPT !.str = string]

get_token_string(tok) == tok.str

set_token_string_length(tok, string_length) ==
    [tok EXCEPT !.str_len = string_length % Pow2(STR_LEN_BITS)]

set_token_type(tok, token_type) == [tok EXCEPT !.type = token_type % Pow2(TYPE_BITS)]

set_token_level(tok, level) == [tok EXCEPT !.level = level % Pow2(LEVEL_BITS)]

set_token_is_last(tok, is_last) ==
    [tok EXCEPT !.is_last = (IF is_last THEN 1 ELSE 0) % Pow2(IS_LAST_BITS)]

\* an alloc_token that hands out the token behind the store
alloc_token_past_end(p) ==
    IF p.token_count > p.max_tokens
    THEN [tok |-> NULL, p |-> p]
    ELSE [tok |-> p.token_count, p |-> [p EXCEPT !.token_count = @ + 1]]

\* an alloc_token that holds back the last token of the store
alloc_token_short(p) ==
    IF p.token_count + 1 >= p.max_tokens
    THEN [tok |-> NULL, p |-> p]
    ELSE [tok |-> p.token_count, p |-> [p EXCEPT !.token_count = @ + 1]]

\* the index of the allocated token (the pointer &token_store[i]), or NULL
alloc_token(p) ==
    IF p.token_count >= p.max_tokens
    THEN [tok |-> NULL, p |-> p]
    ELSE [tok |-> p.token_count, p |-> [p EXCEPT !.token_count = @ + 1]]

init_token(p, type) ==
    LET Allocated(a) ==
            IF a.tok = NULL THEN a
            ELSE [tok |-> a.tok,
                  p |-> [a.p EXCEPT !.token_store[a.tok] =
                            set_token_level(
                                set_token_type(set_token_string(@, ref_char(a.p)), type),
                                a.p.level)]]
    IN  Allocated(alloc_token(p))

finalize_token(p, tok) ==
    [p EXCEPT !.token_store[tok] =
        set_token_string_length(@, ref_char(p) - get_token_string(@))]

\* what a parse_xxx function returns, with the parser as it leaves it
Result(err, p) == [err |-> err, p |-> p]


\* ------------------------------------------------------------------------
\* parse_string
\* ------------------------------------------------------------------------

\* a test for hex digits that misses the capitals
is_hex_no_capitals(ch) ==
    \/ (ch >= Ch.d0 /\ ch <= Ch.d9)
    \/ (ch >= Ch.a /\ ch <= Ch.f)

is_hex(ch) ==
    \/ (ch >= Ch.d0 /\ ch <= Ch.d9)
    \/ (ch >= Ch.uA /\ ch <= Ch.uF)
    \/ (ch >= Ch.a /\ ch <= Ch.f)

SimpleEscapes == {Ch.dq, Ch.bslash, Ch.slash, Ch.b, Ch.f, Ch.n, Ch.r, Ch.t}

\* the for loop over the four hex digits of a \u escape, from iteration i
RECURSIVE parse_unicode_escape(_, _)
parse_unicode_escape(p, i) ==
    IF i >= 4 THEN Result(MU_JSON_ERR_NONE, p)
    ELSE IF at_eos(p) \/ ~is_hex(peek_char(p)) THEN Result(MU_JSON_ERR_BAD_FORMAT, p)
    ELSE parse_unicode_escape(get_char(p), i + 1)

\* the while loop of parse_string; err = NONE when the loop is left by its
\* condition or by break
RECURSIVE parse_string_loop(_)
parse_string_loop(p) ==
    IF at_eos(p) THEN Result(MU_JSON_ERR_NONE, p)
    ELSE
        LET Escape(p1) ==
                IF at_eos(p1) THEN Result(MU_JSON_ERR_INCOMPLETE, p1)
                ELSE
                    LET Unicode(r) ==
                            IF r.err # MU_JSON_ERR_NONE THEN r ELSE parse_string_loop(r.p)
                        Escaped(escape_char) ==
                            IF escape_char \in SimpleEscapes THEN parse_string_loop(get_char(p1))
                            ELSE IF escape_char = Ch.u
                            THEN Unicode(parse_unicode_escape(get_char(p1), 0))
                            ELSE Result(MU_JSON_ERR_BAD_FORMAT, p1)
                    IN  Escaped(peek_char(p1))
            Char(ch) ==
                IF ch = Ch.bslash THEN Escape(get_char(p))
                ELSE IF is_multibyte(ch) THEN Result(MU_JSON_ERR_NO_MULTIBYTE, p)
                ELSE IF ch < 32 THEN Result(MU_JSON_ERR_BAD_FORMAT, p)
                ELSE IF ch = Ch.dq THEN Result(MU_JSON_ERR_NONE, p)
                ELSE parse_string_loop(get_char(p))
        IN  Char(peek_char(p))

parse_string(p) ==
    IF at_eos(p) \/ peek_char(p) # Ch.dq THEN Result(MU_JSON_ERR_INTERNAL, p)
    ELSE
        LET Scanned(tok, r) ==
                IF r.err # MU_JSON_ERR_NONE THEN r
                ELSE IF at_eos(r.p) THEN Result(MU_JSON_ERR_INCOMPLETE, r.p)
                ELSE IF peek_char(r.p) # Ch.dq THEN Result(MU_JSON_ERR_INTERNAL, r.p)
                ELSE Result(MU_JSON_ERR_NONE, finalize_token(get_char(r.p), tok))
            Allocated(a) ==
                IF a.tok = NULL THEN Result(MU_JSON_ERR_NOT_ENOUGH_TOKENS, a.p)
                ELSE Scanned(a.tok, parse_string_loop(get_char(a.p)))
        IN  Allocated(init_token(p, MU_JSON_TOKEN_TYPE_STRING))

\* ------------------------------------------------------------------------
\* parse_number
\* ------------------------------------------------------------------------

is_number_prefix(ch) == (ch = Ch.minus) \/ ((ch >= Ch.d0) /\ (ch <= Ch.d9))

\* the digit loops of parse_number: while (!at_eos && '0' <= ch <= '9') get_char
RECURSIVE parse_digits(_)
parse_digits(p) ==
    IF at_eos(p) THEN p
    ELSE IF peek_char(p) >= Ch.d0 /\ peek_char(p) <= Ch.d9 THEN parse_digits(get_char(p))
    ELSE p

\* the exponent part of parse_number, tok already allocated
parse_exponent(p, tok) ==
    IF ~at_eos(p) /\ (peek_char(p) = Ch.e \/ peek_char(p) = Ch.uE) THEN
        LET Digits(p2, p3) ==
                LET has_exponent_digits == p3.str_pos > p2.str_pos IN
                IF ~has_exponent_digits THEN Result(MU_JSON_ERR_BAD_FORMAT, p3)
                ELSE Result(MU_JSON_ERR_NONE, finalize_token(p3, tok))
            Signed(p2) == Digits(p2, parse_digits(p2))
            Sign(p1) ==
                Signed(IF ~at_eos(p1) /\ (peek_char(p1) = Ch.plus \/ peek_char(p1) = Ch.minus)
                       THEN get_char(p1) ELSE p1)
        IN  Sign(get_char([p EXCEPT !.token_store[tok] =
                              set_token_type(@, MU_JSON_TOKEN_TYPE_NUMBER)]))
    ELSE Result(MU_JSON_ERR_NONE, finalize_token(p, tok))

\* a fractional part that leaves the token's type as it is
parse_fraction_keeps_type(p, tok) ==
    IF ~at_eos(p) /\ peek_char(p) = Ch.dot THEN
        LET Digits(p1, p2) ==
                IF ~(p2.str_pos > p1.str_pos) THEN Result(MU_JSON_ERR_BAD_FORMAT, p2)
                ELSE parse_exponent(p2, tok)
            Dot(p1) == Digits(p1, parse_digits(p1))
        IN  Dot(get_char(p))
    ELSE parse_exponent(p, tok)

\* the fractional part of parse_number, then the exponent
parse_fraction(p, tok) ==
    IF ~at_eos(p) /\ peek_char(p) = Ch.dot THEN
        LET Digits(p1, p2) ==
                LET has_fractional_part == p2.str_pos > p1.str_pos IN
                IF ~has_fractional_part THEN Result(MU_JSON_ERR_BAD_FORMAT, p2)
                ELSE parse_exponent(p2, tok)
            Dot(p1) == Digits(p1, parse_digits(p1))
        IN  Dot(get_char([p EXCEPT !.token_store[tok] =
                             set_token_type(@, MU_JSON_TOKEN_TYPE_NUMBER)]))
    ELSE parse_exponent(p, tok)

parse_number(p) ==
    IF at_eos(p) \/ ~is_number_prefix(peek_char(p)) THEN Result(MU_JSON_ERR_INTERNAL, p)
    ELSE
        LET Integer(tok, has_leading_zero, p2, p3) ==
                LET has_integer_part == p3.str_pos > p2.str_pos IN
                IF has_leading_zero /\ has_integer_part
                THEN Result(MU_JSON_ERR_BAD_FORMAT, p3)
                ELSE IF ~has_leading_zero /\ ~has_integer_part
                THEN Result(MU_JSON_ERR_BAD_FORMAT, p3)
                ELSE parse_fraction(p3, tok)
            Zero(tok, has_leading_zero, p2) ==
                IF has_leading_zero /\ ~at_eos(p2) /\ peek_char(p2) = Ch.d0
                THEN Result(MU_JSON_ERR_BAD_FORMAT, p2)
                ELSE Integer(tok, has_leading_zero, p2, parse_digits(p2))
            Minus(tok, p1) ==
                IF at_eos(p1) THEN Result(MU_JSON_ERR_INCOMPLETE, p1)
                ELSE Zero(tok, peek_char(p1) = Ch.d0,
                          IF peek_char(p1) = Ch.d0 THEN get_char(p1) ELSE p1)
            Allocated(a) ==
                IF a.tok = NULL THEN Result(MU_JSON_ERR_NOT_ENOUGH_TOKENS, a.p)
                ELSE Minus(a.tok, IF peek_char(a.p) = Ch.minus THEN get_char(a.p) ELSE a.p)
        IN  Allocated(init_token(p, MU_JSON_TOKEN_TYPE_INTEGER))

\* ------------------------------------------------------------------------
\* parse_literal
\* ------------------------------------------------------------------------

Literal == [true |-> <<Ch.t, Ch.r, Ch.u, Ch.e>>,
            false |-> <<Ch.f, Ch.a, Ch.l, Ch.s, Ch.e>>,
            null |-> <<Ch.n, Ch.u, Ch.l, Ch.l>>]

\* the for loop of parse_literal, from iteration i (0-based)
RECURSIVE parse_literal_loop(_, _, _)
parse_literal_loop(p, literal, i) ==
    IF i >= Len(literal) THEN Result(MU_JSON_ERR_NONE, p)
    ELSE IF at_eos(p) THEN Result(MU_JSON_ERR_INCOMPLETE, p)
    ELSE IF peek_char(p) # literal[i + 1] THEN Result(MU_JSON_ERR_BAD_FORMAT, get_char(p))
    ELSE parse_literal_loop(get_char(p), literal, i + 1)

parse_literal(p, literal, type) ==
    IF at_eos(p) THEN Result(MU_JSON_ERR_INTERNAL, p)
    ELSE
        LET Matched(tok, r) ==
                IF r.err # MU_JSON_ERR_NONE THEN r
                ELSE Result(MU_JSON_ERR_NONE, finalize_token(r.p, tok))
            Allocated(a) ==
                IF a.tok = NULL THEN Result(MU_JSON_ERR_NOT_ENOUGH_TOKENS, a.p)
                ELSE Matched(a.tok, parse_literal_loop(a.p, literal, 0))
        IN  Allocated(init_token(p, type))

\* ------------------------------------------------------------------------
\* find_and_skip
\* ------------------------------------------------------------------------

find_and_skip(p, delimiter) ==
    LET Skipped(p2) ==
            IF at_eos(p2) THEN Result(MU_JSON_ERR_BAD_FORMAT, p2)
            ELSE Result(MU_JSON_ERR_NONE, p2)
        Delimiter(p1) ==
            IF at_eos(p1) THEN Result(MU_JSON_ERR_BAD_FORMAT, p1)
            ELSE IF peek_char(p1) # delimiter THEN Result(MU_JSON_ERR_BAD_FORMAT, p1)
            ELSE Skipped(skip_whitespace(get_char(p1)))
    IN  Delimiter(skip_whitespace(p))

\* ------------------------------------------------------------------------
\* parse_element, parse_object, parse_array: the recursion as a machine.
\* A frame is one active call of parse_object or parse_array, stopped at
\* its call of parse_element: tok is its token, is_object tells which of
\* the two functions it is.  pc is the place of the running code:
\*   "element"  at the entry of parse_element
\*   "loop"     at the top of the while loop of the innermost container
\*   "return"   parse_element has returned err to its caller
\* ------------------------------------------------------------------------

Frame(tok, is_object) == [tok |-> tok, is_object |-> is_object]

Machine(pc, err, p, stack) == [pc |-> pc, err |-> err, p |-> p, stack |-> stack]

Pop(stack) == SubSeq(stack, 1, Len(stack) - 1)

Top(stack) == stack[Len(stack)]

\* parse_object / parse_array from the entry to the first loop iteration
container_open(m, p, is_object) ==
    IF at_eos(p) \/ peek_char(p) # (IF is_object THEN Ch.lbrace ELSE Ch.lbracket)
    THEN Machine("return", MU_JSON_ERR_INTERNAL, p, m.stack)
    ELSE
        LET Allocated(a) ==
                IF a.tok = NULL
                THEN Machine("return", MU_JSON_ERR_NOT_ENOUGH_TOKENS, a.p, m.stack)
                ELSE Machine("loop", MU_JSON_ERR_NONE,
                             get_char([a.p EXCEPT !.level = @ + 1]),
                             Append(m.stack, Frame(a.tok, is_object)))
        IN  Allocated(init_token(p, IF is_object THEN MU_JSON_TOKEN_TYPE_OBJECT
                                                 ELSE MU_JSON_TOKEN_TYPE_ARRAY))

\* parse_object / parse_array after the while loop
container_close(m, p) ==
    IF at_eos(p) THEN Machine("return", MU_JSON_ERR_INCOMPLETE, p, Pop(m.stack))
    ELSE IF peek_char(p) # (IF Top(m.stack).is_object THEN Ch.rbrace ELSE Ch.rbracket)
    THEN Machine("return", MU_JSON_ERR_INTERNAL, p, Pop(m.stack))
    ELSE
        LET Closed(p1) ==
                Machine("return", MU_JSON_ERR_NONE,
                        [p1 EXCEPT !.token_store[Top(m.stack).tok] =
                            set_token_string_length(@, ref_char(p1) - get_token_string(@))],
                        Pop(m.stack))
        IN  Closed([get_char(p) EXCEPT !.level = @ - 1])

\* the key and the colon of one pair of parse_object, up to its call of
\* parse_element
object_pair(m, p) ==
    LET Colon(c) ==
            IF c.err # MU_JSON_ERR_NONE THEN Machine("return", c.err, c.p, Pop(m.stack))
            ELSE Machine("element", MU_JSON_ERR_NONE, c.p, m.stack)
        Key(r) ==
            IF r.err # MU_JSON_ERR_NONE THEN Machine("return", r.err, r.p, Pop(m.stack))
            ELSE Colon(find_and_skip(r.p, Ch.colon))
    IN  Key(parse_string(p))

\* one iteration of the while loop of parse_object / parse_array, up to its
\* call of parse_element; first tells whether it is the first iteration
container_loop(m, first) ==
    LET Comma(c) ==
            IF c.err # MU_JSON_ERR_NONE THEN Machine("return", c.err, c.p, Pop(m.stack))
            ELSE IF Top(m.stack).is_object THEN object_pair(m, c.p)
            ELSE Machine("element", MU_JSON_ERR_NONE, c.p, m.stack)
        Loop(p1) ==
            IF at_eos(p1) \/ peek_char(p1) = (IF Top(m.stack).is_object THEN Ch.rbrace
                                                                        ELSE Ch.rbracket)
            THEN container_close(m, p1)
            ELSE Comma(IF ~first THEN find_and_skip(p1, Ch.comma)
                       ELSE Result(MU_JSON_ERR_NONE, p1))
    IN  Loop(skip_whitespace(m.p))

parse_element(m) ==
    LET Scalar(r) == Machine("return", r.err, r.p, m.stack)
        Literally(p, literal, type) == Scalar(parse_literal(p, literal, type))
        Dispatch(p) ==
            IF at_eos(p) THEN Machine("return", MU_JSON_ERR_NONE, p, m.stack)
            ELSE
                LET Char(ch) ==
                        IF ch = Ch.dq THEN Scalar(parse_string(p))
                        ELSE IF is_digit(ch) \/ ch = Ch.minus THEN Scalar(parse_number(p))
                        ELSE IF ch \in {Ch.t, Ch.f, Ch.n} THEN
                            Literally(p,
                                      IF ch = Ch.t THEN Literal.true
                                      ELSE IF ch = Ch.f THEN Literal.false ELSE Literal.null,
                                      IF ch = Ch.t THEN MU_JSON_TOKEN_TYPE_TRUE
                                      ELSE IF ch = Ch.f THEN MU_JSON_TOKEN_TYPE_FALSE
                                      ELSE MU_JSON_TOKEN_TYPE_NULL)
                        ELSE IF ch \in {Ch.lbrace, Ch.lbracket}
                        THEN container_open(m, p, ch = Ch.lbrace)
                        ELSE IF is_multibyte(ch)
                        THEN Machine("return", MU_JSON_ERR_NO_MULTIBYTE, p, m.stack)
                        ELSE Machine("return", MU_JSON_ERR_BAD_FORMAT, p, m.stack)
                IN  Char(peek_char(p))
    IN  Dispatch(skip_whitespace(m.p))

\* one step of the machine: a call of parse_element, or what the innermost
\* container does next (after its call of parse_element has returned, it
\* returns the error or goes round its loop); the machine stops when
\* parse_element has returned to parse_json
Stopped(m) == m.pc = "return" /\ m.stack = <<>>

\* a step in which a container keeps running after an error of its element
Step_error_stays(m) ==
    IF Stopped(m) THEN m
    ELSE IF m.pc = "element" THEN parse_element(m)
    ELSE IF m.pc = "return" /\ m.err # MU_JSON_ERR_NONE
    THEN Machine("return", m.err, m.p, m.stack)
    ELSE container_loop(m, m.pc = "loop")

Step(m) ==
    IF Stopped(m) THEN m
    ELSE IF m.pc = "element" THEN parse_element(m)
    ELSE IF m.pc = "return" /\ m.err # MU_JSON_ERR_NONE
    THEN Machine("return", m.err, m.p, Pop(m.stack))
    ELSE container_loop(m, m.pc = "loop")

\* up to 2^k steps
RECURSIVE Run(_, _)
Run(m, k) ==
    IF Stopped(m) THEN m
    ELSE IF k = 0 THEN Step(m)
    ELSE LET q == Run(m, k - 1) IN Run(q, k - 1)

\* every step but the last of a container reads a byte of the input or
\* leaves a container, so this many steps are enough
StepBudget(str_len) == 4 * (IF str_len > 0 THEN str_len ELSE 0) + 8


\* ------------------------------------------------------------------------
\* parse_json and the two entry points
\* ------------------------------------------------------------------------

\* a pointer argument: null, or the object it points to
Ptr(obj) == [null |-> FALSE, obj |-> obj]

NullPtr == [null |-> TRUE, obj |-> <<>>]

\* a memset that stops one token early
memset_tokens_short(mem, n) ==
    [i \in DOMAIN mem |-> IF n < 0 \/ i < n - 1 THEN ZeroToken ELSE mem[i]]

\* memset(tokens, 0, sizeof(mu_json_token_t) * n) on the array mem; the
\* product is a size_t, so a negative n runs over the whole of memory
memset_tokens(mem, n) ==
    [i \in DOMAIN mem |-> IF n < 0 \/ i < n THEN ZeroToken ELSE mem[i]]

\* a parser_reset that leaves the tokens as they are
parser_reset_keeps_tokens(p) ==
    [p EXCEPT !.str_pos = 0,
              !.token_count = 0,
              !.level = 0]

parser_reset(p) ==
    [p EXCEPT !.token_store = memset_tokens(@, p.max_tokens),
              !.str_pos = 0,
              !.token_count = 0,
              !.level = 0]

\* what a call leaves behind: whether it returned, the value returned, the
\* token memory, and the parser's read position and token count at the end
Outcome(returned, ret, mem, p) ==
    [returned |-> returned, ret |-> ret, mem |-> mem,
     str_pos |-> p.str_pos, token_count |-> p.token_count]

NoParser == [str_pos |-> 0, token_count |-> 0]

\* parse_json after parse_element has returned err
parse_json_endgame(err, p) ==
    IF err # MU_JSON_ERR_NONE THEN Outcome(TRUE, err, p.token_store, p)
    ELSE IF p.token_count = 0
    THEN Outcome(TRUE, MU_JSON_ERR_NO_ENTITIES, p.token_store, p)
    ELSE
        LET Skipped(p1) ==
                IF ~at_eos(p1)
                THEN Outcome(TRUE, MU_JSON_ERR_STRAY_INPUT, p1.token_store, p1)
                ELSE Outcome(TRUE, p1.token_count,
                             [p1.token_store EXCEPT ![p1.token_count - 1] =
                                 set_token_is_last(@, TRUE)],
                             p1)
        IN  Skipped(skip_whitespace(p))

parse_json(str, str_len, token_store, max_tokens) ==
    IF str.null \/ token_store.null \/ str_len = 0 \/ max_tokens = 0
    THEN Outcome(TRUE, MU_JSON_ERR_BAD_ARGUMENT, token_store.obj, NoParser)
    ELSE
        LET Parsed(m) == parse_json_endgame(m.err, m.p) IN
        Parsed(Run(Machine("element", MU_JSON_ERR_NONE,
                           parser_reset([str |-> str.obj, str_len |-> str_len,
                                         str_pos |-> 0,
                                         token_store |-> token_store.obj,
                                         max_tokens |-> max_tokens,
                                         token_count |-> 0, level |-> 0]),
                           <<>>),
                   CeilLog2(StepBudget(str_len))))

\* strlen: the offset of the first NUL byte, by up to 2^k iterations from i
RECURSIVE strlen_loop(_, _, _)
strlen_loop(buf, i, k) ==
    IF Byte(buf, i) = Ch.nul THEN i
    ELSE IF k = 0 THEN i + 1
    ELSE LET j == strlen_loop(buf, i, k - 1) IN strlen_loop(buf, j, k - 1)

strlen(buf) == strlen_loop(buf, 0, CeilLog2(BufLen(buf)))

\* The outcomes of a call.  Two calls have undefined behaviour: strlen of a
\* null pointer, and memset with a negative count (a huge size_t).  Either
\* the process dies there, or the access goes through and the code runs on.
Crashed(mem) == [returned |-> FALSE, ret |-> 0, mem |-> mem, str_pos |-> 0, token_count |-> 0]

memset_overruns(str, str_len, token_store, max_tokens) ==
    ~str.null /\ ~token_store.null /\ str_len # 0 /\ max_tokens < 0

parse_json_outcomes(str, str_len, token_store, max_tokens) ==
    {parse_json(str, str_len, token_store, max_tokens)}
    \cup (IF memset_overruns(str, str_len, token_store, max_tokens)
          THEN {Crashed(memset_tokens(token_store.obj, max_tokens))}
          ELSE {})

mu_json_parse_str(str, token_store, max_tokens) ==
    (IF str.null THEN {Crashed(token_store.obj)} ELSE {})
    \cup UNION {parse_json_outcomes(str, n, token_store, max_tokens) :
                n \in IF str.null THEN {0, 1} ELSE {strlen(str.obj)}}

mu_json_parse_buffer(input, input_len, token_store, max_tokens) ==
    parse_json_outcomes(input, input_len, token_store, max_tokens)


\* ------------------------------------------------------------------------
\* The inputs of the calls.
\*
\* A document is a tree: a leaf "L" (a string, a number or a keyword), an
\* array "A" of values, or an object "O" whose children are the values of
\* its members (each member adds a key).  Documents(n) are the trees that
\* take n tokens.  A tree is written out in one of several variants, which
\* differ in the texts of the leaves and keys and in the whitespace; the
\* tokens a correct tokenizer reports are written down beside the text.
\* ------------------------------------------------------------------------

\* the most tokens a generated document takes
MaxNodes == 4

\* the longest byte string of the family of all short strings
MaxStrLen == 3

Leaf == [k |-> "L", c |-> <<>>]

RECURSIVE Documents(_)
RECURSIVE ValueLists(_)
RECURSIVE MemberLists(_)
Documents(n) ==
    IF n < 1 THEN {}
    ELSE (IF n = 1 THEN {Leaf} ELSE {})
         \cup {[k |-> "A", c |-> items] : items \in ValueLists(n - 1)}
         \cup {[k |-> "O", c |-> items] : items \in MemberLists(n - 1)}

\* the lists of values that take n tokens together
ValueLists(n) ==
    IF n = 0 THEN {<<>>}
    ELSE UNION {{<<v>> \o rest : v \in Documents(h), rest \in ValueLists(n - h)} :
                h \in 1..n}

\* the lists of member values that take n tokens together with their keys
MemberLists(n) ==
    IF n = 0 THEN {<<>>}
    ELSE UNION {{<<v>> \o rest : v \in Documents(h), rest \in MemberLists(n - 1 - h)} :
                h \in 1..(n - 1)}

\* the texts of the leaves, each with the type of its token
LeafTexts ==
    << [text |-> <<Ch.dq, Ch.bslash, Ch.u, 49, 50, Ch.a, 66, Ch.bslash, Ch.n, Ch.dq>>,
        type |-> MU_JSON_TOKEN_TYPE_STRING],
       [text |-> <<Ch.d0>>, type |-> MU_JSON_TOKEN_TYPE_INTEGER],
       [text |-> <<Ch.dq, Ch.a, Ch.dq>>, type |-> MU_JSON_TOKEN_TYPE_STRING],
       [text |-> <<49, Ch.d0>>, type |-> MU_JSON_TOKEN_TYPE_INTEGER],
       [text |-> <<Ch.minus, 49, Ch.dot, 53>>, type |-> MU_JSON_TOKEN_TYPE_NUMBER],
       [text |-> Literal.true, type |-> MU_JSON_TOKEN_TYPE_TRUE],
       [text |-> Literal.null, type |-> MU_JSON_TOKEN_TYPE_NULL],
       [text |-> <<Ch.dq, Ch.dq>>, type |-> MU_JSON_TOKEN_TYPE_STRING],
       [text |-> Literal.false, type |-> MU_JSON_TOKEN_TYPE_FALSE],
       [text |-> <<50, Ch.uE, Ch.plus, 49>>, type |-> MU_JSON_TOKEN_TYPE_NUMBER],
       [text |-> <<Ch.dq, Ch.bslash, Ch.bslash, Ch.sp, Ch.bslash, Ch.dq, Ch.dq>>,
        type |-> MU_JSON_TOKEN_TYPE_STRING],
       [text |-> <<Ch.minus, Ch.d0, Ch.dot, Ch.d0, Ch.e, Ch.minus, 50>>,
        type |-> MU_JSON_TOKEN_TYPE_NUMBER],
       [text |-> <<Ch.minus, 55>>, type |-> MU_JSON_TOKEN_TYPE_INTEGER] >>

\* the texts of the member keys
KeyTexts ==
    << <<Ch.dq, Ch.a, Ch.sp, Ch.bslash, Ch.t, Ch.dq>>,
       <<Ch.dq, 107, Ch.dq>>,
       <<Ch.dq, Ch.dq>> >>

\* the variants: variant v starts LeafStride texts further on in LeafTexts,
\* and there are as many variants as it takes for every text to be used
LeafStride == MaxNodes

Variants == 0..((Len(LeafTexts) - 1) \div LeafStride)

\* the n-th leaf and the n-th key of a document written in variant v
LeafAt(v, n) == LeafTexts[((LeafStride * v + n) % Len(LeafTexts)) + 1]

KeyAt(v, n) == KeyTexts[((v + n) % Len(KeyTexts)) + 1]

\* the whitespace of variant v: none in the odd variants
Ws(v, bytes) == IF v % 2 = 1 THEN <<>> ELSE bytes

\* a token as the generator expects it: type, level, offset and length
Tok(type, level, start, len) ==
    [type |-> type, level |-> level, start |-> start, len |-> len]

\* the text and the tokens of a tree whose text starts at offset at; n counts
\* the leaves and keys written before it
RECURSIVE Render(_, _, _, _, _)
RECURSIVE RenderItems(_, _, _, _, _, _, _)
Render(t, level, at, v, n) ==
    IF t.k = "L" THEN
        LET lf == LeafAt(v, n) IN
        [text |-> lf.text,
         toks |-> <<Tok(lf.type, level, at, Len(lf.text))>>,
         n |-> n + 1]
    ELSE
        LET is_object == t.k = "O"
            body == RenderItems(t.c, is_object, level + 1, at + 1, v, n, TRUE)
            text == <<IF is_object THEN Ch.lbrace ELSE Ch.lbracket>> \o body.text
                    \o <<IF is_object THEN Ch.rbrace ELSE Ch.rbracket>>
        IN
        [text |-> text,
         toks |-> <<Tok(IF is_object THEN MU_JSON_TOKEN_TYPE_OBJECT
                                     ELSE MU_JSON_TOKEN_TYPE_ARRAY,
                        level, at, Len(text))>> \o body.toks,
         n |-> body.n]

\* the items of a container from offset at up to its closing bracket
RenderItems(items, is_object, level, at, v, n, first) ==
    IF items = <<>> THEN [text |-> Ws(v, <<Ch.sp>>), toks |-> <<>>, n |-> n]
    ELSE
        LET sep == (IF first THEN <<>> ELSE Ws(v, <<Ch.ht>>) \o <<Ch.comma>>)
                   \o Ws(v, <<Ch.lf>>)
            key == IF is_object THEN KeyAt(v, n) ELSE <<>>
            colon == IF is_object
                     THEN Ws(v, <<Ch.sp>>) \o <<Ch.colon>> \o Ws(v, <<Ch.cr, Ch.sp>>)
                     ELSE <<>>
            key_at == at + Len(sep)
            val_at == key_at + Len(key) + Len(colon)
            val == Render(Head(items), level, val_at, v, IF is_object THEN n + 1 ELSE n)
            rest == RenderItems(Tail(items), is_object, level,
                                val_at + Len(val.text), v, val.n, FALSE)
        IN
        [text |-> sep \o key \o colon \o val.text \o rest.text,
         toks |-> (IF is_object
                   THEN <<Tok(MU_JSON_TOKEN_TYPE_STRING, level, key_at, Len(key))>>
                   ELSE <<>>) \o val.toks \o rest.toks,
         n |-> rest.n]

\* an input: its bytes as a NUL-terminated buffer, their number, and what
\* the generator knows of them: whether they are a well-formed document and
\* then its tokens, and the class of the high-bit byte put into them
Input(family, str, len, wf, expect, hb) ==
    [family |-> family, str |-> str, len |-> len, wf |-> wf, expect |-> expect, hb |-> hb]

\* a tree written out in variant v, with whitespace around it in the even
\* variants
Doc(t, v) ==
    LET lead == Ws(v, <<Ch.sp, Ch.lf>>)
        r == Render(t, 0, Len(lead), v, 0)
        text == lead \o r.text \o Ws(v, <<Ch.cr>>)
    IN  Input("doc", <<Seg(text \o <<Ch.nul>>, 1)>>, Len(text), TRUE, r.toks, "none")

Docs ==
    {Doc(t, v) : t \in UNION {Documents(n) : n \in 1..MaxNodes}, v \in Variants}

\* ------------------------------------------------------------------------
\* A byte with the high bit set, put into a document.  The class of the
\* place it is put at is read off the document's text and tokens:
\*   "element"    where a value may start: before the top-level value, after
\*                '[', after ':', after a ',' of an array
\*   "key"        where a member key may start: after '{', after a ',' of
\*                an object
\*   "string"     inside a string literal, not in an escape
\*   "escape"     right after the backslash of an escape
\*   "hex"        among the four hex digits of a \u escape
\*   "number"     inside a number, "keyword" inside true / false / null
\*   "separator"  after a value or key inside a container
\*   "end"        after the top-level value
\* ------------------------------------------------------------------------

\* what is left of an escape after reading text[i..to], when st was left
\* before: 0 nothing, -1 the character after the backslash, k > 0 that many
\* hex digits
RECURSIVE EscapeState(_, _, _, _)
EscapeState(text, i, to, st) ==
    IF i > to THEN st
    ELSE EscapeState(text, i + 1, to,
                     IF st = 0 THEN (IF text[i] = Ch.bslash THEN -1 ELSE 0)
                     ELSE IF st = -1 THEN (IF text[i] = Ch.u THEN 4 ELSE 0)
                     ELSE st - 1)

\* the index of the last byte of text[1..i] that is not whitespace, or 0
RECURSIVE LastNonWs(_, _)
LastNonWs(text, i) ==
    IF i = 0 THEN 0
    ELSE IF text[i] \in {Ch.sp, Ch.ht, Ch.lf, Ch.cr} THEN LastNonWs(text, i - 1)
    ELSE i

Max(S) == CHOOSE x \in S : \A y \in S : y <= x

\* the class of offset j of a document, 0 <= j <= Len(text)
HbClass(text, toks, j) ==
    LET Inside(t) == t.start < j /\ j < t.start + t.len
        Around(types) == {i \in DOMAIN toks : toks[i].type \in types /\ Inside(toks[i])}
        strings == Around({MU_JSON_TOKEN_TYPE_STRING})
        numbers == Around({MU_JSON_TOKEN_TYPE_NUMBER, MU_JSON_TOKEN_TYPE_INTEGER})
        keywords == Around({MU_JSON_TOKEN_TYPE_TRUE, MU_JSON_TOKEN_TYPE_FALSE,
                            MU_JSON_TOKEN_TYPE_NULL})
        containers == Around({MU_JSON_TOKEN_TYPE_ARRAY, MU_JSON_TOKEN_TYPE_OBJECT})
        last == LastNonWs(text, j)
    IN
    IF strings # {} THEN
        LET st == EscapeState(text, toks[Max(strings)].start + 2, j, 0) IN
        IF st = 0 THEN "string" ELSE IF st = -1 THEN "escape" ELSE "hex"
    ELSE IF numbers # {} THEN "number"
    ELSE IF keywords # {} THEN "keyword"
    ELSE IF last = 0 THEN "element"
    ELSE IF text[last] = Ch.lbracket \/ text[last] = Ch.colon THEN "element"
    ELSE IF text[last] = Ch.lbrace THEN "key"
    ELSE IF text[last] = Ch.comma THEN
        (IF toks[Max(containers)].type = MU_JSON_TOKEN_TYPE_OBJECT THEN "key" ELSE "element")
    ELSE IF containers # {} THEN "separator"
    ELSE "end"

\* the two high-bit bytes put in: the least and the greatest
HighBit(j) == IF j % 2 = 0 THEN 128 ELSE 255

\* document d with a high-bit byte put in at offset j; expect keeps the
\* tokens of d
WithHighBit(d, j) ==
    LET text == SubSeq(d.str[1].bytes, 1, d.len) IN
    Input("highbit",
          <<Seg(SubSeq(text, 1, j) \o <<HighBit(j)>> \o SubSeq(text, j + 1, d.len)
                \o <<Ch.nul>>, 1)>>,
          d.len + 1, FALSE, d.expect, HbClass(text, d.expect, j))

\* the documents the byte is put into: every tree, in the first variant if
\* it takes an even number of tokens and in the second if an odd number
HighBitInputs ==
    {WithHighBit(dj[1], dj[2]) :
        dj \in UNION {{<<Doc(t, n % 2), i>> : i \in 0..Doc(t, n % 2).len} :
                      <<t, n>> \in UNION {Documents(k) \X {k} : k \in 1..MaxNodes}}}

\* ------------------------------------------------------------------------
\* All byte strings of up to MaxStrLen bytes of the structural alphabet
\* ------------------------------------------------------------------------

Alphabet == {Ch.lbracket, Ch.rbracket, Ch.lbrace, Ch.rbrace, Ch.dq, Ch.colon,
             Ch.comma, 49}

ByteStrings ==
    {Input("bytes", <<Seg(s \o <<Ch.nul>>, 1)>>, Len(s), FALSE, <<>>, "none") :
        s \in UNION {[1..n -> Alphabet] : n \in 0..MaxStrLen}}

\* ------------------------------------------------------------------------
\* Documents at the limits of the token's bit-fields: one array nested in
\* another once more than the level field counts, and an array whose text
\* is one byte longer than the length field counts (with and without an
\* element at its end)
\* ------------------------------------------------------------------------

DeepLevels == Pow2(LEVEL_BITS) + 1

DeepNest ==
    Input("deep",
          <<Seg(<<Ch.lbracket>>, DeepLevels), Seg(<<Ch.rbracket>>, DeepLevels),
            Seg(<<Ch.nul>>, 1)>>,
          2 * DeepLevels, TRUE,
          [i \in 1..DeepLevels |->
              Tok(MU_JSON_TOKEN_TYPE_ARRAY, i - 1, i - 1, 2 * (DeepLevels - i + 1))],
          "none")

\* an array of two integers inside as many arrays as the level field counts
DeepPair ==
    Input("deep",
          <<Seg(<<Ch.lbracket>>, DeepLevels - 1), Seg(<<49, Ch.comma, 50>>, 1),
            Seg(<<Ch.rbracket>>, DeepLevels - 1), Seg(<<Ch.nul>>, 1)>>,
          2 * (DeepLevels - 1) + 3, TRUE,
          [i \in 1..(DeepLevels + 1) |->
              IF i < DeepLevels
              THEN Tok(MU_JSON_TOKEN_TYPE_ARRAY, i - 1, i - 1, 2 * (DeepLevels - i) + 3)
              ELSE Tok(MU_JSON_TOKEN_TYPE_INTEGER, DeepLevels - 1,
                       DeepLevels - 1 + 2 * (i - DeepLevels), 1)],
          "none")

LongArray ==
    Input("long",
          <<Seg(<<Ch.lbracket>>, 1), Seg(<<Ch.sp>>, Pow2(STR_LEN_BITS) - 2),
            Seg(<<Ch.rbracket, Ch.nul>>, 1)>>,
          Pow2(STR_LEN_BITS), TRUE,
          <<Tok(MU_JSON_TOKEN_TYPE_ARRAY, 0, 0, Pow2(STR_LEN_BITS))>>,
          "none")

LongArrayOfOne ==
    Input("long",
          <<Seg(<<Ch.lbracket>>, 1), Seg(<<Ch.sp>>, Pow2(STR_LEN_BITS) - 2),
            Seg(<<49, Ch.rbracket, Ch.nul>>, 1)>>,
          Pow2(STR_LEN_BITS) + 1, TRUE,
          <<Tok(MU_JSON_TOKEN_TYPE_ARRAY, 0, 0, Pow2(STR_LEN_BITS) + 1),
            Tok(MU_JSON_TOKEN_TYPE_INTEGER, 1, Pow2(STR_LEN_BITS) - 1, 1)>>,
          "none")

\* ------------------------------------------------------------------------
\* Documents cut short: the first j bytes of a document, 1 <= j < its length.
\* expect keeps the tokens of the whole document.
\* ------------------------------------------------------------------------

CutAt(d, j) ==
    Input("cut", <<Seg(SubSeq(d.str[1].bytes, 1, j) \o <<Ch.nul>>, 1)>>, j, FALSE,
          d.expect, "none")

\* the documents cut: the trees of fewer than MaxNodes tokens, written with
\* whitespace
CutInputs ==
    {CutAt(dj[1], dj[2]) :
        dj \in UNION {{<<Doc(t, v), j>> : j \in 1..(Doc(t, v).len - 1)} :
                      <<t, v>> \in (UNION {Documents(k) : k \in 1..(MaxNodes - 1)})
                                   \X {w \in Variants : w % 2 = 0}}}

\* ------------------------------------------------------------------------
\* A top-level value with bytes behind it, and inputs of whitespace alone
\* ------------------------------------------------------------------------

JsonWs == {Ch.sp, Ch.ht, Ch.lf, Ch.cr}

\* the top-level values: every leaf text and the two empty containers
TailValues ==
    {LeafTexts[i] : i \in DOMAIN LeafTexts}
    \cup {[text |-> <<Ch.lbracket, Ch.rbracket>>, type |-> MU_JSON_TOKEN_TYPE_ARRAY],
          [text |-> <<Ch.lbrace, Ch.rbrace>>, type |-> MU_JSON_TOKEN_TYPE_OBJECT]}

\* what is put behind the value: whitespace, and bytes that are none:
\* vertical tab, form feed, bytes a number could go on with, separators, a
\* quote, a high-bit byte
Tails ==
    LET other == {11, 12, Ch.d0, Ch.dot, Ch.e, Ch.comma, Ch.dq, Ch.rbracket, 128} IN
    {<<b>> : b \in JsonWs \cup other}
    \cup {<<Ch.sp, b>> : b \in other \cup {Ch.lf}}
    \cup {<<b, Ch.cr>> : b \in other}

WithTail(lead, val, tail) ==
    Input("tail", <<Seg(lead \o val.text \o tail \o <<Ch.nul>>, 1)>>,
          Len(lead) + Len(val.text) + Len(tail),
          \A i \in DOMAIN tail : tail[i] \in JsonWs,
          <<Tok(val.type, 0, Len(lead), Len(val.text))>>, "none")

TailInputs ==
    {WithTail(lead, val, tail) :
        lead \in {<<>>, <<Ch.ht, Ch.sp>>}, val \in TailValues, tail \in Tails}

BlankInputs ==
    {Input("blank", <<Seg(s \o <<Ch.nul>>, 1)>>, Len(s), FALSE, <<>>, "none") :
        s \in [1..1 -> JsonWs] \cup [1..2 -> JsonWs]}

\* ------------------------------------------------------------------------
\* Number texts: a sign, an integer part, a fraction and an exponent, each
\* absent, well formed or malformed.  The text is a number if every part is
\* well formed and the integer part is there; expect holds the token of the
\* number it is or would be.
\* ------------------------------------------------------------------------

NumPart(text, ok) == [text |-> text, ok |-> ok]

NumberText(sign, int, frac, exp) ==
    LET text == sign.text \o int.text \o frac.text \o exp.text IN
    Input("number", <<Seg(text \o <<Ch.nul>>, 1)>>, Len(text),
          sign.ok /\ int.ok /\ frac.ok /\ exp.ok,
          <<Tok(IF frac.text = <<>> /\ exp.text = <<>>
                THEN MU_JSON_TOKEN_TYPE_INTEGER ELSE MU_JSON_TOKEN_TYPE_NUMBER,
                0, 0, Len(text))>>,
          "none")

NumberInputs ==
    {in \in {NumberText(sign, int, frac, exp) :
                sign \in {NumPart(<<>>, TRUE), NumPart(<<Ch.minus>>, TRUE),
                          NumPart(<<Ch.plus>>, FALSE)},
                int \in {NumPart(<<>>, FALSE), NumPart(<<Ch.d0>>, TRUE),
                         NumPart(<<49>>, TRUE), NumPart(<<49, Ch.d0>>, TRUE),
                         NumPart(<<Ch.d0, Ch.d0>>, FALSE), NumPart(<<Ch.d0, 49>>, FALSE)},
                frac \in {NumPart(<<>>, TRUE), NumPart(<<Ch.dot>>, FALSE),
                          NumPart(<<Ch.dot, Ch.d0>>, TRUE),
                          NumPart(<<Ch.dot, 50, 53>>, TRUE)},
                exp \in {NumPart(<<>>, TRUE), NumPart(<<Ch.e>>, FALSE),
                         NumPart(<<Ch.e, Ch.d0>>, TRUE), NumPart(<<Ch.uE, 49>>, TRUE),
                         NumPart(<<Ch.uE, Ch.plus, 51>>, TRUE),
                         NumPart(<<Ch.e, Ch.minus>>, FALSE),
                         NumPart(<<Ch.e, Ch.minus, 49, Ch.d0>>, TRUE)}} :
        in.len > 0}

Inputs ==
    Docs \cup HighBitInputs \cup ByteStrings
    \cup {DeepNest, DeepPair, LongArray, LongArrayOfOne}
    \cup CutInputs \cup TailInputs \cup BlankInputs \cup NumberInputs

\* ------------------------------------------------------------------------
\* The token store before the call: size tokens and the memory behind them.
\*   "garbage"  never written
\*   "stale"    an earlier parse has filled it and succeeded
\*   "failed"   an earlier parse has filled it and failed
\* ------------------------------------------------------------------------

\* the tokens of memory kept behind the store
Guard == 1

GarbageToken ==
    [str |-> Pow2(STR_LEN_BITS) - 1, str_len |-> Pow2(STR_LEN_BITS) - 1,
     type |-> Pow2(TYPE_BITS) - 1, level |-> Pow2(LEVEL_BITS) - 1,
     is_last |-> Pow2(IS_LAST_BITS) - 1]

Garbage(size) == [i \in 0..(size + Guard - 1) |-> GarbageToken]

\* an array of integers that takes n tokens, closed or cut before its ']'
ArrayOfOnes(n, closed) ==
    <<Seg(<<Ch.lbracket>>, 1), Seg(<<49, Ch.comma>>, IF n > 2 THEN n - 2 ELSE 0),
      Seg(IF n > 1 THEN <<49>> ELSE <<>>, 1),
      Seg(IF closed THEN <<Ch.rbracket, Ch.nul>> ELSE <<Ch.nul>>, 1)>>

Before(store0, size) ==
    IF store0 = "garbage" THEN Garbage(size)
    ELSE LET str == ArrayOfOnes(size, store0 = "stale") IN
         parse_json(Ptr(str), strlen(str), Ptr(Garbage(size)), size).mem

\* the sizes of the store an input is parsed with: for a document one token
\* too few, just enough and one too many; for a document with a high-bit
\* byte and at the limits just enough; for a short byte string the least
\* and the most
Sizes(in) ==
    IF in.family = "doc" THEN {n \in (Len(in.expect) - 1)..(Len(in.expect) + 1) : n >= 1}
    ELSE IF in.family = "bytes" THEN {1, MaxNodes}
    ELSE IF in.family = "blank" THEN {1}
    ELSE {Len(in.expect)}

\* the states of the store an input is parsed with
Stores(in) ==
    IF in.family = "doc" THEN {"garbage", "stale", "failed"}
    ELSE IF in.family = "highbit" THEN {"failed"}
    ELSE {"garbage"}

\* ------------------------------------------------------------------------
\* The state: an input and a token store, then one call of an entry point
\* and what it left behind.
\* ------------------------------------------------------------------------

VARIABLES
    input,      \* the input the caller holds
    size,       \* the number of tokens of the caller's store
    store0,     \* the state of the store before the call
    before,     \* the store and the memory behind it as they were before the call
    tokens,     \* the store and the memory behind it
    call,       \* the call made: entry point and arguments
    result,     \* whether it returned, its return value, the parser at the end
    emitter,    \* the emitter: the caller's mu_jems_t, frame array and sink
    jems_call   \* the last emitter call, the emitter before it, calls so far

vars == <<input, size, store0, before, tokens, call, result, emitter, jems_call>>

\* no emitter has been set up, no emitter call has been made
NoJems == [levels |-> <<>>, max_level |-> 0, curr_level |-> 0, arg |-> <<>>]

NoJemsCall == [fn |-> "none", args |-> <<>>, before |-> NoJems, n |-> 0]

NoCall ==
    [fn |-> "none", str_null |-> FALSE, str_len |-> 0, store_null |-> FALSE,
     max_tokens |-> 0]

NoResult == [returned |-> FALSE, ret |-> 0, str_pos |-> 0, token_count |-> 0]

\* the arguments of a call: those the caller means, and, for the documents
\* of one token, those with one argument bad
Args(str_null, str_len, store_null, max_tokens) ==
    [str_null |-> str_null, str_len |-> str_len, store_null |-> store_null,
     max_tokens |-> max_tokens]

WithFaults(in) == in.family = "doc" /\ Len(in.expect) = 1

BufferArgs(in, n) ==
    {Args(FALSE, in.len, FALSE, n)}
    \cup (IF WithFaults(in)
          THEN {Args(TRUE, in.len, FALSE, n), Args(FALSE, in.len, TRUE, n),
                Args(FALSE, 0, FALSE, n), Args(FALSE, -1, FALSE, n),
                Args(FALSE, in.len, FALSE, 0), Args(FALSE, in.len, FALSE, -1)}
          ELSE {})

StrArgs(in, n) ==
    {Args(FALSE, in.len, FALSE, n)}
    \cup (IF WithFaults(in)
          THEN {Args(TRUE, 0, FALSE, n), Args(FALSE, in.len, TRUE, n),
                Args(FALSE, in.len, FALSE, 0), Args(FALSE, in.len, FALSE, -1)}
          ELSE {})

Init ==
    /\ input \in Inputs
    /\ size \in Sizes(input)
    /\ store0 \in Stores(input)
    /\ before = Before(store0, size)
    /\ tokens = before
    /\ call = NoCall
    /\ result = NoResult
    /\ emitter = NoJems
    /\ jems_call = NoJemsCall

\* the caller's state after a call with arguments a that ended in outcome o
Returns(fn, a, o) ==
    /\ call' = [fn |-> fn, str_null |-> a.str_null, str_len |-> a.str_len,
                store_null |-> a.store_null, max_tokens |-> a.max_tokens]
    /\ result' = [returned |-> o.returned, ret |-> o.ret, str_pos |-> o.str_pos,
                  token_count |-> o.token_count]
    /\ tokens' = IF a.store_null THEN tokens ELSE o.mem
    /\ UNCHANGED <<input, size, store0, before, emitter, jems_call>>

\* err = mu_json_parse_str(str, token_store, max_tokens)
ParseStr ==
    /\ call.fn = "none"
    /\ \E a \in StrArgs(input, size) :
         \E o \in mu_json_parse_str(IF a.str_null THEN NullPtr ELSE Ptr(input.str),
                                    IF a.store_null THEN NullPtr ELSE Ptr(tokens),
                                    a.max_tokens) :
            Returns("str", a, o)

\* err = mu_json_parse_buffer(input, input_len, token_store, max_tokens)
ParseBuffer ==
    /\ call.fn = "none"
    /\ \E a \in BufferArgs(input, size) :
         \E o \in mu_json_parse_buffer(IF a.str_null THEN NullPtr ELSE Ptr(input.str),
                                       a.str_len,
                                       IF a.store_null THEN NullPtr ELSE Ptr(tokens),
                                       a.max_tokens) :
            Returns("buffer", a, o)

Next == ParseStr \/ ParseBuffer

Spec == Init /\ [][Next]_vars

\* ------------------------------------------------------------------------
\* Token navigation, as far as the parser's postconditions speak of it.  A
\* token pointer is the index of the token in the store, or NULL.
\* ------------------------------------------------------------------------

token_is_null(token) == token = NULL

token_is_first(mem, token) == mem[token].level = 0

mu_json_token_is_first(mem, token) ==
    IF token_is_null(token) THEN FALSE ELSE token_is_first(mem, token)

\* a walk over the tokens: the token it stands on, and whether it has
\* returned (then token is the value returned)
Walk(done, token) == [done |-> done, token |-> token]

\* up to 2^k iterations of the while loop of mu_json_find_root_token
RECURSIVE find_root_loop(_, _, _)
find_root_loop(mem, w, k) ==
    IF w.done THEN w
    ELSE IF k = 0
    THEN IF token_is_first(mem, w.token) THEN Walk(TRUE, w.token)
         ELSE Walk(FALSE, w.token - 1)
    ELSE LET Half(v) == find_root_loop(mem, v, k - 1)
         IN  Half(find_root_loop(mem, w, k - 1))

mu_json_find_root_token(mem, token) ==
    IF token_is_null(token) THEN NULL
    ELSE find_root_loop(mem, Walk(FALSE, token),
                        CeilLog2(Cardinality(DOMAIN mem)) + 1).token

token_is_last(mem, token) == mem[token].is_last = 1

mu_json_find_next_token(mem, token) ==
    IF token_is_null(token) \/ token_is_last(mem, token) THEN NULL ELSE token + 1

mu_json_find_prev_token(mem, token) ==
    IF token_is_null(token) \/ token_is_first(mem, token) THEN NULL ELSE token - 1

\* the while loop of mu_json_find_parent_token
RECURSIVE find_parent_loop(_, _, _)
find_parent_loop(mem, current, target_level) ==
    IF mem[current].level > target_level
    THEN LET Moved(prev) ==
                 IF token_is_null(prev) THEN NULL
                 ELSE find_parent_loop(mem, prev, target_level)
         IN  Moved(mu_json_find_prev_token(mem, current))
    ELSE current

mu_json_find_parent_token(mem, token) ==
    IF token_is_null(token) \/ token_is_first(mem, token) THEN NULL
    ELSE find_parent_loop(mem, token, mem[token].level - 1)

\* mu_json_find_child_token without its test of is_last
mu_json_find_child_token_reads_next(mem, token) ==
    IF token_is_null(token) THEN NULL
    ELSE IF mem[token + 1].level <= mem[token].level THEN NULL
    ELSE token + 1

mu_json_find_child_token(mem, token) ==
    IF token_is_null(token) \/ token_is_last(mem, token) THEN NULL
    ELSE LET Child(next) ==
                 IF token_is_null(next) \/ mem[next].level <= mem[token].level THEN NULL
                 ELSE next
         IN  Child(mu_json_find_next_token(mem, token))

\* one iteration of the loop of find_sibling; m is the function passed in,
\* "next" for mu_json_find_next_token and "prev" for mu_json_find_prev_token
find_sibling_step(mem, target_level, m, w) ==
    LET Moved(current) ==
            IF token_is_null(current) THEN Walk(TRUE, NULL)
            ELSE IF mem[current].level = target_level THEN Walk(TRUE, current)
            ELSE IF mem[current].level < target_level THEN Walk(TRUE, NULL)
            ELSE Walk(FALSE, current)
    IN  Moved(IF m = "next" THEN mu_json_find_next_token(mem, w.token)
              ELSE mu_json_find_prev_token(mem, w.token))

\* up to 2^k iterations of the loop of find_sibling
RECURSIVE find_sibling_loop(_, _, _, _, _)
find_sibling_loop(mem, target_level, m, w, k) ==
    IF w.done THEN w
    ELSE IF k = 0 THEN find_sibling_step(mem, target_level, m, w)
    ELSE LET Half(v) == find_sibling_loop(mem, target_level, m, v, k - 1)
         IN  Half(find_sibling_loop(mem, target_level, m, w, k - 1))

find_sibling(mem, token, m) ==
    IF token_is_null(token) \/ token_is_first(mem, token) THEN NULL
    ELSE find_sibling_loop(mem, mem[token].level, m, Walk(FALSE, token),
                           CeilLog2(Cardinality(DOMAIN mem))).token

mu_json_find_next_sibling_token(mem, token) == find_sibling(mem, token, "next")

mu_json_find_prev_sibling_token(mem, token) == find_sibling(mem, token, "prev")

\* ------------------------------------------------------------------------
\* mu_jems: the JSON emitter (src/src/mu_jems.c, src/src/mu_jems.h)
\*
\* A mu_jems_t is the record [levels, max_level, curr_level, arg]: levels is
\* the caller's frame array, indexed 0..max_level-1, and arg is what the
\* writer callback is handed with every byte.  The writer of the model
\* appends the byte to the sink that arg stands for.  A C string argument is
\* the sequence of its bytes before the terminating NUL.
\* ------------------------------------------------------------------------

\* &jems->levels[jems->curr_level], as an index into the frame array
level_ref(jems) == jems.curr_level

emit_char(jems, ch) == [jems EXCEPT !.arg = Append(@, ch)]

RECURSIVE emit_string(_, _)
emit_string(jems, s) ==
    IF s = <<>> THEN jems ELSE emit_string(emit_char(jems, Head(s)), Tail(s))

\* emit_quoted_byte without the backslash before '"' and '\'
emit_quoted_byte_bare(jems, byte) ==
    IF byte < 32 \/ byte >= 127
    THEN LET x(d) == IF d < 10 THEN Ch.d0 + d ELSE Ch.a + d - 10 IN
         emit_string(jems, <<Ch.bslash, Ch.u, Ch.d0, Ch.d0,
                             x(byte \div 16), x(byte % 16)>>)
    ELSE emit_char(jems, byte)

\* "\\u%04x" prints the byte as four lower-case hexadecimal digits
emit_quoted_byte(jems, byte) ==
    IF byte < 32 \/ byte >= 127
    THEN LET x(d) == IF d < 10 THEN Ch.d0 + d ELSE Ch.a + d - 10 IN
         emit_string(jems, <<Ch.bslash, Ch.u, Ch.d0, Ch.d0,
                             x(byte \div 16), x(byte % 16)>>)
    ELSE emit_char(IF byte = Ch.bslash \/ byte = Ch.dq
                   THEN emit_char(jems, Ch.bslash) ELSE jems,
                   byte)

RECURSIVE emit_quoted_string(_, _)
emit_quoted_string(jems, s) ==
    IF s = <<>> THEN jems
    ELSE emit_quoted_string(emit_quoted_byte(jems, Head(s)), Tail(s))

\* bytes[0] .. bytes[len - 1]
RECURSIVE emit_quoted_bytes(_, _, _)
emit_quoted_bytes(jems, bytes, len) ==
    IF len = 0 THEN jems
    ELSE emit_quoted_byte(emit_quoted_bytes(jems, bytes, len - 1), bytes[len])

\* commify with ',' wherever a separator is due
commify_comma_only(jems) ==
    LET level == level_ref(jems)
        count == jems.levels[level].item_count
    IN  [(IF count > 0 THEN emit_char(jems, Ch.comma) ELSE jems)
            EXCEPT !.levels[level].item_count = @ + 1]

commify(jems) ==
    LET level == level_ref(jems)
        count == jems.levels[level].item_count
        emitted == IF jems.levels[level].is_object
                   THEN IF count > 0
                        THEN emit_char(jems, IF count % 2 = 1 THEN Ch.colon ELSE Ch.comma)
                        ELSE jems
                   ELSE IF count > 0 THEN emit_char(jems, Ch.comma) ELSE jems
    IN  [emitted EXCEPT !.levels[level].item_count = @ + 1]

\* push_level that also steps from the last frame
push_level_past_last(jems, is_object) ==
    IF jems.curr_level < jems.max_level
    THEN [jems EXCEPT !.curr_level = @ + 1,
                      !.levels = [l \in DOMAIN @ \cup {jems.curr_level + 1} |->
                                     IF l = jems.curr_level + 1
                                     THEN [item_count |-> 0, is_object |-> is_object]
                                     ELSE @[l]]]
    ELSE jems

push_level(jems, is_object) ==
    IF jems.curr_level < jems.max_level - 1
    THEN LET up == [jems EXCEPT !.curr_level = @ + 1] IN
         [up EXCEPT !.levels[level_ref(up)] =
                        [item_count |-> 0, is_object |-> is_object]]
    ELSE jems

pop_level(jems) ==
    IF jems.curr_level > 0 THEN [jems EXCEPT !.curr_level = @ - 1] ELSE jems

\* mu_jems_reset that leaves the root frame as it is
mu_jems_reset_keeps_root(jems) == [jems EXCEPT !.curr_level = 0]

mu_jems_reset(jems) ==
    LET root == [jems EXCEPT !.curr_level = 0] IN
    [root EXCEPT !.levels[level_ref(root)] = [item_count |-> 0, is_object |-> FALSE]]

mu_jems_init(jems, levels, max_level, arg) ==
    mu_jems_reset([jems EXCEPT !.levels = levels, !.max_level = max_level,
                               !.arg = arg])

mu_jems_object_open(jems) == push_level(emit_char(commify(jems), Ch.lbrace), TRUE)

\* mu_jems_object_close without its pop_level
mu_jems_object_close_no_pop(jems) == emit_char(jems, Ch.rbrace)

mu_jems_object_close(jems) == pop_level(emit_char(jems, Ch.rbrace))

mu_jems_array_open(jems) == push_level(emit_char(commify(jems), Ch.lbracket), FALSE)

mu_jems_array_close(jems) == pop_level(emit_char(jems, Ch.rbracket))

\* the decimal digits of n >= 0
RECURSIVE DecimalDigits(_)
DecimalDigits(n) == IF n < 10 THEN <<Ch.d0 + n>> ELSE Append(DecimalDigits(n \div 10), Ch.d0 + (n % 10))

\* what snprintf(buf, sizeof(buf), "%" PRId64, value) leaves in buf[22]
PRId64(value) ==
    LET text == IF value < 0 THEN <<Ch.minus>> \o DecimalDigits(-value) ELSE DecimalDigits(value) IN
    SubSeq(text, 1, IF Len(text) < 22 THEN Len(text) ELSE 21)

Double(neg, whole, zeros, micros, conv) ==
    [neg |-> neg, digits |-> DecimalDigits(whole) \o [k \in 1..zeros |-> Ch.d0],
     micros |-> micros, conv |-> conv]

\* the decimal digits of 2^63, the least double above the range of int64_t
Two63 == <<57, 50, 50, 51, 51, 55, 50, 48, 51, 54, 56, 53, 52, 55, 55, 53, 56, 48, 56>>

\* a double is [neg, digits, micros, conv]: its sign, the decimal digits of
\* its integral part, its fraction in millionths, and what the conversion
\* int64_t i = value yields in this build if the value is out of the range
\* of int64_t, where it is undefined: "min" for INT64_MIN, "max" for
\* INT64_MAX.  "%lf" prints six digits behind the point, and snprintf keeps
\* the first 21 bytes in buf[22].
mu_jems_number(jems, value) ==
    LET digits == value.digits
        \* the digits of 2^63 and of INT64_MAX
        two63 == Two63
        max63 == [two63 EXCEPT ![Len(two63)] = 55]
        below == \E k \in 1..Len(digits) :
                     /\ digits[k] < two63[k]
                     /\ \A h \in 1..(k - 1) : digits[h] = two63[h]
        in_range == \/ Len(digits) < Len(two63)
                    \/ Len(digits) = Len(two63) /\ (below \/ (value.neg /\ digits = two63))
        \* (double)i == value
        same == IF in_range THEN value.micros = 0
                ELSE value.conv = "max" /\ ~value.neg /\ digits = two63
        PRId64_i == IF ~in_range THEN max63
                    ELSE IF value.neg /\ digits # <<Ch.d0>> THEN <<Ch.minus>> \o digits
                    ELSE digits
        lf == (IF value.neg THEN <<Ch.minus>> ELSE <<>>) \o digits
              \o <<Ch.dot>> \o Tail(DecimalDigits(1000000 + value.micros))
        buf == IF same THEN PRId64_i
               ELSE SubSeq(lf, 1, IF Len(lf) < 22 THEN Len(lf) ELSE 21)
    IN  emit_string(commify(jems), buf)

mu_jems_integer(jems, value) == emit_string(commify(jems), PRId64(value))

mu_jems_string(jems, string) ==
    emit_char(emit_quoted_string(emit_char(commify(jems), Ch.dq), string), Ch.dq)

mu_jems_bytes(jems, bytes, length) ==
    emit_char(emit_quoted_bytes(emit_char(commify(jems), Ch.dq), bytes, length), Ch.dq)

mu_jems_bool(jems, boolean) ==
    emit_string(commify(jems), IF boolean THEN <<Ch.t, Ch.r, Ch.u, Ch.e>>
                               ELSE <<Ch.f, Ch.a, Ch.l, Ch.s, Ch.e>>)

mu_jems_true(jems) == emit_string(commify(jems), <<Ch.t, Ch.r, Ch.u, Ch.e>>)

mu_jems_false(jems) == emit_string(commify(jems), <<Ch.f, Ch.a, Ch.l, Ch.s, Ch.e>>)

mu_jems_null(jems) == emit_string(commify(jems), <<Ch.n, Ch.u, Ch.l, Ch.l>>)

\* literal[0] .. literal[n_bytes - 1], as they are
mu_jems_literal(jems, literal, n_bytes) ==
    LET RECURSIVE loop(_, _)
        loop(j, i) == IF i = n_bytes THEN j ELSE loop(emit_char(j, literal[i + 1]), i + 1)
    IN  loop(commify(jems), 0)

mu_jems_key_object_open(jems, key) == mu_jems_object_open(mu_jems_string(jems, key))

mu_jems_key_array_open(jems, key) == mu_jems_array_open(mu_jems_string(jems, key))

mu_jems_key_number(jems, key, value) == mu_jems_number(mu_jems_string(jems, key), value)

mu_jems_key_integer(jems, key, value) == mu_jems_integer(mu_jems_string(jems, key), value)

mu_jems_key_string(jems, key, string) == mu_jems_string(mu_jems_string(jems, key), string)

mu_jems_key_bytes(jems, key, bytes, length) ==
    mu_jems_bytes(mu_jems_string(jems, key), bytes, length)

mu_jems_key_bool(jems, key, boolean) == mu_jems_bool(mu_jems_string(jems, key), boolean)

mu_jems_key_true(jems, key) == mu_jems_true(mu_jems_string(jems, key))

mu_jems_key_false(jems, key) == mu_jems_false(mu_jems_string(jems, key))

mu_jems_key_null(jems, key) == mu_jems_null(mu_jems_string(jems, key))

mu_jems_key_literal(jems, key, literal, n_bytes) ==
    mu_jems_literal(mu_jems_string(jems, key), literal, n_bytes)

mu_jems_curr_level(jems) == jems.curr_level

mu_jems_item_count(jems) == jems.levels[level_ref(jems)].item_count

\* ------------------------------------------------------------------------
\* The emitter as a state machine: one action per call of the mu_jems API.
\* The sink is emptied before every call, so that after the call emitter.arg
\* holds the bytes that this call handed to the writer.
\* ------------------------------------------------------------------------

\* the most frames a caller's frame array has
MaxLevel == 3

\* the most emitter calls of a run
MaxCalls == 4

\* the emitter as the call finds it
Drained == [emitter EXCEPT !.arg = <<>>]

\* the state after the call fn(args) that left the emitter as after
Emits(fn, args, after) ==
    /\ jems_call.n < MaxCalls
    /\ emitter' = after
    /\ jems_call' = [fn |-> fn, args |-> args, before |-> Drained,
                     n |-> jems_call.n + 1]
    /\ UNCHANGED <<input, size, store0, before, tokens, call, result>>

\* mu_jems_init(&jems, levels, max_level, writer, arg) on a frame array of
\* max_level >= 1 frames that holds whatever the caller's memory held
JemsInit ==
    /\ \E max_level \in 1..MaxLevel :
         \E levels \in [0..(max_level - 1) ->
                          {[item_count |-> 0, is_object |-> FALSE],
                           [item_count |-> 3, is_object |-> TRUE]}] :
           \E curr_level \in {0, MaxLevel + 1} :
             emitter = mu_jems_init([NoJems EXCEPT !.curr_level = curr_level],
                                    levels, max_level, <<>>)
    /\ jems_call = NoJemsCall
    /\ input = [family |-> "none"]
    /\ size = 0
    /\ store0 = <<>>
    /\ before = <<>>
    /\ tokens = <<>>
    /\ call = NoCall
    /\ result = NoResult

JemsNext ==
    \/ Emits("mu_jems_reset", <<>>, mu_jems_reset(Drained))
    \/ Emits("mu_jems_object_open", <<>>, mu_jems_object_open(Drained))
    \/ Emits("mu_jems_object_close", <<>>, mu_jems_object_close(Drained))
    \/ Emits("mu_jems_array_open", <<>>, mu_jems_array_open(Drained))
    \/ Emits("mu_jems_array_close", <<>>, mu_jems_array_close(Drained))
    \/ \E value \in {Double(FALSE, 2, 0, 0, "min"),
                     Double(FALSE, 3, 0, 500000, "min"),
                     Double(TRUE, 0, 0, 250000, "min")} :
         Emits("mu_jems_number", <<value>>, mu_jems_number(Drained, value))
    \/ \E value \in {-12, 7} :
         Emits("mu_jems_integer", <<value>>, mu_jems_integer(Drained, value))
    \/ \E string \in {<<>>, <<Ch.a, Ch.dq, Ch.bslash, 31, 127, 255>>} :
         Emits("mu_jems_string", <<string>>, mu_jems_string(Drained, string))
    \/ \E bytes \in {<<>>, <<0, 126>>} :
         Emits("mu_jems_bytes", <<bytes, Len(bytes)>>,
               mu_jems_bytes(Drained, bytes, Len(bytes)))
    \/ \E boolean \in BOOLEAN :
         Emits("mu_jems_bool", <<boolean>>, mu_jems_bool(Drained, boolean))
    \/ Emits("mu_jems_true", <<>>, mu_jems_true(Drained))
    \/ Emits("mu_jems_false", <<>>, mu_jems_false(Drained))
    \/ Emits("mu_jems_null", <<>>, mu_jems_null(Drained))
    \/ \E n_bytes \in {0, 3} :
         Emits("mu_jems_literal", <<<<Ch.lbracket, Ch.d0, Ch.rbracket>>, n_bytes>>,
               mu_jems_literal(Drained, <<Ch.lbracket, Ch.d0, Ch.rbracket>>, n_bytes))
    \/ \E key \in {<<Ch.a>>} :
         \/ Emits("mu_jems_key_object_open", <<key>>,
                  mu_jems_key_object_open(Drained, key))
         \/ Emits("mu_jems_key_array_open", <<key>>,
                  mu_jems_key_array_open(Drained, key))
         \/ \E value \in {Double(FALSE, 3, 0, 500000, "min")} :
              Emits("mu_jems_key_number", <<key, value>>,
                    mu_jems_key_number(Drained, key, value))
         \/ \E value \in {7} :
              Emits("mu_jems_key_integer", <<key, value>>,
                    mu_jems_key_integer(Drained, key, value))
         \/ \E string \in {<<Ch.b>>} :
              Emits("mu_jems_key_string", <<key, string>>,
                    mu_jems_key_string(Drained, key, string))
         \/ \E bytes \in {<<0, 126>>} :
              Emits("mu_jems_key_bytes", <<key, bytes, Len(bytes)>>,
                    mu_jems_key_bytes(Drained, key, bytes, Len(bytes)))
         \/ \E boolean \in BOOLEAN :
              Emits("mu_jems_key_bool", <<key, boolean>>,
                    mu_jems_key_bool(Drained, key, boolean))
         \/ Emits("mu_jems_key_true", <<key>>, mu_jems_key_true(Drained, key))
         \/ Emits("mu_jems_key_false", <<key>>, mu_jems_key_false(Drained, key))
         \/ Emits("mu_jems_key_null", <<key>>, mu_jems_key_null(Drained, key))
         \/ Emits("mu_jems_key_literal", <<key, <<Ch.d0>>, 1>>,
                  mu_jems_key_literal(Drained, key, <<Ch.d0>>, 1))

JemsSpec == JemsInit /\ [][JemsNext]_vars

\* ------------------------------------------------------------------------
\* Emitter scripts: a sequence of calls made on a fresh emitter, one call
\* per step, whose whole output is then handed to the tokenizer.  Here the
\* sink is never emptied: emitter.arg holds every byte written so far.
\* ------------------------------------------------------------------------

JCall(fn, args) == [fn |-> fn, args |-> args]

\* the call c made on the emitter
mu_jems_call(jems, c) ==
    CASE c.fn = "mu_jems_reset" -> mu_jems_reset(jems)
      [] c.fn = "mu_jems_object_open" -> mu_jems_object_open(jems)
      [] c.fn = "mu_jems_object_close" -> mu_jems_object_close(jems)
      [] c.fn = "mu_jems_array_open" -> mu_jems_array_open(jems)
      [] c.fn = "mu_jems_array_close" -> mu_jems_array_close(jems)
      [] c.fn = "mu_jems_number" -> mu_jems_number(jems, c.args[1])
      [] c.fn = "mu_jems_integer" -> mu_jems_integer(jems, c.args[1])
      [] c.fn = "mu_jems_string" -> mu_jems_string(jems, c.args[1])
      [] c.fn = "mu_jems_bytes" -> mu_jems_bytes(jems, c.args[1], c.args[2])
      [] c.fn = "mu_jems_bool" -> mu_jems_bool(jems, c.args[1])
      [] c.fn = "mu_jems_true" -> mu_jems_true(jems)
      [] c.fn = "mu_jems_false" -> mu_jems_false(jems)
      [] c.fn = "mu_jems_null" -> mu_jems_null(jems)
      [] c.fn = "mu_jems_literal" -> mu_jems_literal(jems, c.args[1], c.args[2])
      [] c.fn = "mu_jems_key_object_open" -> mu_jems_key_object_open(jems, c.args[1])
      [] c.fn = "mu_jems_key_array_open" -> mu_jems_key_array_open(jems, c.args[1])
      [] c.fn = "mu_jems_key_number" -> mu_jems_key_number(jems, c.args[1], c.args[2])
      [] c.fn = "mu_jems_key_integer" -> mu_jems_key_integer(jems, c.args[1], c.args[2])
      [] c.fn = "mu_jems_key_string" -> mu_jems_key_string(jems, c.args[1], c.args[2])
      [] c.fn = "mu_jems_key_bytes" ->
            mu_jems_key_bytes(jems, c.args[1], c.args[2], c.args[3])
      [] c.fn = "mu_jems_key_bool" -> mu_jems_key_bool(jems, c.args[1], c.args[2])
      [] c.fn = "mu_jems_key_true" -> mu_jems_key_true(jems, c.args[1])
      [] c.fn = "mu_jems_key_false" -> mu_jems_key_false(jems, c.args[1])
      [] c.fn = "mu_jems_key_null" -> mu_jems_key_null(jems, c.args[1])
      [] c.fn = "mu_jems_key_literal" ->
            mu_jems_key_literal(jems, c.args[1], c.args[2], c.args[3])

\* calls that enter, fill and leave frames
FrameCalls ==
    {JCall("mu_jems_object_open", <<>>), JCall("mu_jems_array_open", <<>>),
     JCall("mu_jems_object_close", <<>>), JCall("mu_jems_array_close", <<>>),
     JCall("mu_jems_integer", <<7>>), JCall("mu_jems_key_integer", <<<<Ch.a>>, 7>>),
     JCall("mu_jems_key_array_open", <<<<Ch.a>>>>)}

\* the emitter under mu_jems_reset and the calls that enter, fill and leave
\* frames, from mu_jems_init on a frame array with stale contents
ResetNext ==
    \/ Emits("mu_jems_reset", <<>>, mu_jems_reset(Drained))
    \/ \E c \in FrameCalls : Emits(c.fn, c.args, mu_jems_call(Drained, c))

ResetSpec == JemsInit /\ [][ResetNext]_vars

\* the key variant of each call that emits a value
KeyVariant ==
    [mu_jems_object_open |-> "mu_jems_key_object_open",
     mu_jems_array_open |-> "mu_jems_key_array_open",
     mu_jems_number |-> "mu_jems_key_number",
     mu_jems_integer |-> "mu_jems_key_integer",
     mu_jems_string |-> "mu_jems_key_string",
     mu_jems_bytes |-> "mu_jems_key_bytes",
     mu_jems_bool |-> "mu_jems_key_bool",
     mu_jems_true |-> "mu_jems_key_true",
     mu_jems_false |-> "mu_jems_key_false",
     mu_jems_null |-> "mu_jems_key_null",
     mu_jems_literal |-> "mu_jems_key_literal"]

\* the calls that write the leaves of a tree, and the keys of its members
ScriptLeaves ==
    << JCall("mu_jems_integer", <<7>>),
       JCall("mu_jems_string", << <<Ch.a, Ch.dq, Ch.bslash, 31, 127, 255>> >>),
       JCall("mu_jems_true", <<>>),
       JCall("mu_jems_null", <<>>),
       JCall("mu_jems_integer", <<-12>>),
       JCall("mu_jems_bool", <<FALSE>>),
       JCall("mu_jems_string", << <<>> >>),
       JCall("mu_jems_false", <<>>),
       JCall("mu_jems_bool", <<TRUE>>),
       JCall("mu_jems_integer", <<0>>) >>

ScriptKeys == << <<Ch.a>>, <<>>, <<107, Ch.dq, 1, Ch.colon>> >>

\* the calls that write the tree t: variant v starts LeafStride calls
\* further on in ScriptLeaves; n counts the leaves and keys written before;
\* member holds the key if t is a member that goes out with the key variant
\* of its call; keyed tells whether members do
RECURSIVE Script(_, _, _, _, _)
RECURSIVE ScriptItems(_, _, _, _, _)
Script(t, member, keyed, v, n) ==
    LET Keyed(c) == IF member = <<>> THEN c
                    ELSE JCall(KeyVariant[c.fn], member \o c.args)
    IN
    IF t.k = "L" THEN
        [calls |-> <<Keyed(ScriptLeaves[((LeafStride * v + n) % Len(ScriptLeaves)) + 1])>>,
         n |-> n + 1]
    ELSE
        LET is_object == t.k = "O"
            body == ScriptItems(t.c, is_object, keyed, v, n)
        IN
        [calls |-> <<Keyed(JCall(IF is_object THEN "mu_jems_object_open"
                                 ELSE "mu_jems_array_open", <<>>))>>
                   \o body.calls
                   \o <<JCall(IF is_object THEN "mu_jems_object_close"
                              ELSE "mu_jems_array_close", <<>>)>>,
         n |-> body.n]

ScriptItems(items, is_object, keyed, v, n) ==
    IF items = <<>> THEN [calls |-> <<>>, n |-> n]
    ELSE
        LET key == ScriptKeys[((v + n) % Len(ScriptKeys)) + 1]
            val == Script(Head(items), IF is_object /\ keyed THEN <<key>> ELSE <<>>,
                          keyed, v, IF is_object THEN n + 1 ELSE n)
            rest == ScriptItems(Tail(items), is_object, keyed, v, val.n)
        IN
        [calls |-> (IF is_object /\ ~keyed
                    THEN <<JCall("mu_jems_string", <<key>>)>> ELSE <<>>)
                   \o val.calls \o rest.calls,
         n |-> rest.n]

\* a script: the calls, and the frames the emitter is given for them
Scripted(kind, calls, max_level) ==
    [family |-> "script", kind |-> kind, calls |-> calls, max_level |-> max_level]

\* the trees of up to MaxNodes tokens, written in every variant, with the
\* keys as calls of their own or through the key variants, on 1..MaxLevel
\* frames
TreeScripts ==
    {Scripted("tree", Script(t, <<>>, keyed, v, 0).calls, max_level) :
        t \in UNION {Documents(n) : n \in 1..MaxNodes},
        keyed \in BOOLEAN,
        v \in 0..((Len(ScriptLeaves) - 1) \div LeafStride),
        max_level \in 1..MaxLevel}

\* object_open; key_integer("x", 1); key_array_open("y"); integer(2);
\* number(3.5); array_close; object_close, on MaxLevel frames
SampleScript ==
    Scripted("sample",
             <<JCall("mu_jems_object_open", <<>>),
               JCall("mu_jems_key_integer", <<<<120>>, 1>>),
               JCall("mu_jems_key_array_open", <<<<121>>>>),
               JCall("mu_jems_integer", <<2>>),
               JCall("mu_jems_number", <<Double(FALSE, 3, 0, 500000, "min")>>),
               JCall("mu_jems_array_close", <<>>),
               JCall("mu_jems_object_close", <<>>)>>,
             MaxLevel)

\* one call of mu_jems_number: 0, -0, 2, -12, 3.5, -0.25, 0.000001, 1e18,
\* -2^63 and, out of the range of int64_t, 2^63, 1e19, -1e19 and 1e20, with
\* either outcome of the conversion
NumberScripts ==
    {Scripted("number", <<JCall("mu_jems_number", <<value>>)>>, 1) :
        value \in {Double(FALSE, 0, 0, 0, "min"), Double(TRUE, 0, 0, 0, "min"),
                   Double(FALSE, 2, 0, 0, "min"), Double(TRUE, 12, 0, 0, "min"),
                   Double(FALSE, 3, 0, 500000, "min"),
                   Double(TRUE, 0, 0, 250000, "min"),
                   Double(FALSE, 0, 0, 1, "min"),
                   Double(FALSE, 1, 18, 0, "min")}
             \cup {Double(neg, 1, 19, 0, conv) : neg \in BOOLEAN, conv \in {"min", "max"}}
             \cup {Double(FALSE, 1, 20, 0, conv) : conv \in {"min", "max"}}
             \cup {[Double(FALSE, 0, 0, 0, conv) EXCEPT !.digits = Two63] :
                      conv \in {"min", "max"}}
             \cup {[Double(TRUE, 0, 0, 0, "min") EXCEPT !.digits = Two63]}}

\* one call of mu_jems_string on a string without NUL, or of mu_jems_bytes:
\* every single byte, and the sequences of up to MaxStrLen bytes out of
\* '"', '\', 0x01, 'a' and 0xff (and 0x00 for mu_jems_bytes)
QuotedScripts ==
    LET Seqs(S) == UNION {[1..n -> S] : n \in 0..MaxStrLen}
        few == {Ch.dq, Ch.bslash, 1, Ch.a, 255}
    IN  {Scripted("string", <<JCall("mu_jems_string", <<string>>)>>, 1) :
            string \in Seqs(few) \cup {<<b>> : b \in 1..255}}
        \cup {Scripted("bytes", <<JCall("mu_jems_bytes", <<bytes, Len(bytes)>>)>>, 1) :
                 bytes \in Seqs(few \cup {0}) \cup {<<b>> : b \in 0..255}}

Scripts == TreeScripts \cup {SampleScript} \cup NumberScripts \cup QuotedScripts

\* mu_jems_init on a frame array that was never written, and a token store
\* that holds a token for every key and value the script can write
ScriptInit ==
    /\ input \in Scripts
    /\ emitter = mu_jems_init(NoJems,
                              [l \in 0..(input.max_level - 1) |->
                                  [item_count |-> 3, is_object |-> TRUE]],
                              input.max_level, <<>>)
    /\ jems_call = NoJemsCall
    /\ size = 2 * Len(input.calls)
    /\ store0 = "garbage"
    /\ before = Before(store0, size)
    /\ tokens = before
    /\ call = NoCall
    /\ result = NoResult

\* the next call of the script
EmitNext ==
    /\ jems_call.n < Len(input.calls)
    /\ LET c == input.calls[jems_call.n + 1] IN
         /\ emitter' = mu_jems_call(emitter, c)
         /\ jems_call' = [fn |-> c.fn, args |-> c.args, before |-> emitter,
                          n |-> jems_call.n + 1]
    /\ UNCHANGED <<input, size, store0, before, tokens, call, result>>

\* the script is done, and the sink is parsed as a NUL-terminated string
ParseEmittedStr ==
    /\ jems_call.n = Len(input.calls)
    /\ call.fn = "none"
    /\ LET a == Args(FALSE, Len(emitter.arg), FALSE, size) IN
         \E o \in mu_json_parse_str(Ptr(<<Seg(emitter.arg \o <<Ch.nul>>, 1)>>),
                                    Ptr(tokens), a.max_tokens) :
            Returns("str", a, o)

\* the script is done, and the sink is parsed as a buffer of its length
ParseEmittedBuffer ==
    /\ jems_call.n = Len(input.calls)
    /\ call.fn = "none"
    /\ LET a == Args(FALSE, Len(emitter.arg), FALSE, size) IN
         \E o \in mu_json_parse_buffer(Ptr(<<Seg(emitter.arg, 1)>>), a.str_len,
                                       Ptr(tokens), a.max_tokens) :
            Returns("buffer", a, o)

ScriptNext == EmitNext \/ ParseEmittedStr \/ ParseEmittedBuffer

ScriptSpec == ScriptInit /\ [][ScriptNext]_vars

\* ------------------------------------------------------------------------
\* mu_json_error_name

\* s_error_names[errnum] is s_error_names[errnum + 1] here
s_error_names ==
    <<"MU_JSON_ERR_NONE", "MU_JSON_ERR_BAD_FORMAT", "MU_JSON_ERR_INCOMPLETE",
      "MU_JSON_ERR_NO_ENTITIES", "MU_JSON_ERR_STRAY_INPUT",
      "MU_JSON_ERR_NOT_ENOUGH_TOKENS", "MU_JSON_ERR_BAD_ARGUMENT",
      "MU_JSON_ERR_TOO_DEEP", "MU_JSON_ERR_NO_MULTIBYTE", "MU_JSON_ERR_INTERNAL">>

N_ERROR_NAMES == Len(s_error_names)

\* the least value of an int
INT_MIN == -2147483647 - 1

\* mu_json_error_name without errnum = -errnum
mu_json_error_name_no_negate(errnum) ==
    IF errnum < 0 THEN {s_error_names[0 + 1]}
    ELSE IF errnum >= N_ERROR_NAMES THEN {"MU_JSON_ERR_UNKNOWN"}
    ELSE {s_error_names[errnum + 1]}

\* the strings a call may return.  -errnum overflows for INT_MIN, which is
\* undefined: a build that wraps goes on with a negative errnum, a build
\* that drops the test errnum < 0 for it ends in the test against
\* N_ERROR_NAMES.
mu_json_error_name(errnum) ==
    IF errnum = INT_MIN THEN {s_error_names[0 + 1], "MU_JSON_ERR_UNKNOWN"}
    ELSE LET negated == -errnum IN
         IF negated < 0 THEN {s_error_names[0 + 1]}
         ELSE IF negated >= N_ERROR_NAMES THEN {"MU_JSON_ERR_UNKNOWN"}
         ELSE {s_error_names[negated + 1]}

\* the codes around the defined ones
MaxCode == 30

\* a code is about to be passed to mu_json_error_name: one close to the
\* defined codes, or one at the ends of int
NameInit ==
    /\ \E errnum \in (-MaxCode..MaxCode) \cup {INT_MIN, INT_MIN + 1, -(INT_MIN + 1)} :
           input = [family |-> "errnum", errnum |-> errnum]
    /\ size = 0
    /\ store0 = <<>>
    /\ before = <<>>
    /\ tokens = <<>>
    /\ call = NoCall
    /\ result = NoResult
    /\ emitter = NoJems
    /\ jems_call = NoJemsCall

\* name = mu_json_error_name(errnum)
ErrorName ==
    /\ call.fn = "none"
    /\ \E name \in mu_json_error_name(input.errnum) :
           /\ call' = [NoCall EXCEPT !.fn = "mu_json_error_name"]
           /\ result' = [returned |-> TRUE, name |-> name]
    /\ UNCHANGED <<input, size, store0, before, tokens, emitter, jems_call>>

NameSpec == NameInit /\ [][ErrorName]_vars

\* ------------------------------------------------------------------------
\* mu_json_parse_buffer on the first bytes of a buffer that goes on

\* a document of fewer than MaxNodes tokens or a number text, of which the
\* first len bytes are to be parsed: the rest of the text and its NUL lie
\* behind them in the caller's buffer.  The length may be 0 or negative.
WindowInputs ==
    {Input("window", d.str, len, FALSE, d.expect, "none") :
        <<d, len>> \in UNION {{<<e, k>> : k \in -1..e.len} :
                               e \in {Doc(t, v) : t \in UNION {Documents(k) : k \in 1..(MaxNodes - 1)},
                                                  v \in Variants}
                                     \cup NumberInputs}}

\* the store has room for the whole text, or for one token
WindowInit ==
    /\ input \in WindowInputs
    /\ size \in {1, Len(input.expect)}
    /\ store0 = "garbage"
    /\ before = Before(store0, size)
    /\ tokens = before
    /\ call = NoCall
    /\ result = NoResult
    /\ emitter = NoJems
    /\ jems_call = NoJemsCall

\* err = mu_json_parse_buffer(input, input_len, token_store, max_tokens)
ParseWindow ==
    /\ call.fn = "none"
    /\ LET a == Args(FALSE, input.len, FALSE, size) IN
         \E o \in mu_json_parse_buffer(Ptr(input.str), a.str_len, Ptr(tokens),
                                       a.max_tokens) :
            Returns("buffer", a, o)

WindowSpec == WindowInit /\ [][ParseWindow]_vars

\* ------------------------------------------------------------------------
\* parse_json step by step: the calls of parse_element and the iterations of
\* the loops of parse_object and parse_array, one at a time

\* the documents of fewer than MaxNodes tokens, whole and cut, the short
\* byte strings and the number texts
StepInputs ==
    {in \in Docs \cup CutInputs \cup ByteStrings \cup NumberInputs :
        in.len > 0 /\ (in.family = "doc" => Len(in.expect) < MaxNodes)}

\* the top of the while loop of the innermost container
AtLoopTop(m) ==
    /\ m.stack # <<>>
    /\ m.pc = "loop" \/ (m.pc = "return" /\ m.err = MU_JSON_ERR_NONE)

\* no iteration of a loop has begun yet
NoTop == [str_pos |-> -1, token_count |-> -1]

\* no call yet
StepInit ==
    /\ input = [family |-> "none"]
    /\ size = 0
    /\ store0 = "garbage"
    /\ before = <<>>
    /\ tokens = <<>>
    /\ call = NoCall
    /\ result = NoResult
    /\ emitter = NoJems
    /\ jems_call = NoJemsCall

\* mu_json_parse_buffer is called: parse_json has checked its arguments and
\* reset the parser, and is about to call parse_element.  result.m is the
\* running code, result.steps the steps made, and result.tops holds for
\* every container that is open where the parser was when the last
\* iteration of its loop began.
StepCall ==
    /\ call.fn = "none"
    /\ input' \in StepInputs
    /\ size' \in Sizes(input')
    /\ before' = Before(store0, size')
    /\ call' = [NoCall EXCEPT !.fn = "buffer", !.str_len = input'.len,
                              !.max_tokens = size']
    /\ result' = [returned |-> FALSE, ret |-> 0, steps |-> 0, tops |-> <<>>,
                  m |-> Machine("element", MU_JSON_ERR_NONE,
                                parser_reset([str |-> input'.str, str_len |-> input'.len,
                                              str_pos |-> 0, token_store |-> before',
                                              max_tokens |-> size',
                                              token_count |-> 0, level |-> 0]),
                                <<>>)]
    /\ tokens' = result'.m.p.token_store
    /\ UNCHANGED <<store0, emitter, jems_call>>

\* the record of the run after the step that leaves the code at n
Stepped(r, n) ==
    [r EXCEPT
        !.m = n,
        !.steps = @ + 1,
        !.tops = IF Len(n.stack) > Len(r.m.stack) THEN Append(@, NoTop)
                 ELSE IF Len(n.stack) < Len(r.m.stack) THEN Pop(@)
                 ELSE IF AtLoopTop(r.m)
                 THEN [@ EXCEPT ![Len(@)] = [str_pos |-> r.m.p.str_pos,
                                             token_count |-> r.m.p.token_count]]
                 ELSE @]

\* one call of parse_element, or one iteration of a container's loop up to
\* its call of parse_element
StepMachine ==
    /\ call.fn = "buffer"
    /\ ~result.returned
    /\ ~Stopped(result.m)
    /\ result.steps < StepBudget(input.len)
    /\ result' = Stepped(result, Step(result.m))
    /\ tokens' = Step(result.m).p.token_store
    /\ UNCHANGED <<input, size, store0, before, call, emitter, jems_call>>

\* parse_element has returned to parse_json, which returns to the caller
StepReturn ==
    /\ call.fn = "buffer"
    /\ ~result.returned
    /\ Stopped(result.m)
    /\ result' = [result EXCEPT
                     !.returned = TRUE,
                     !.ret = parse_json_endgame(result.m.err, result.m.p).ret]
    /\ tokens' = parse_json_endgame(result.m.err, result.m.p).mem
    /\ UNCHANGED <<input, size, store0, before, call, emitter, jems_call>>

StepNext == StepCall \/ StepMachine \/ StepReturn

StepSpec == StepInit /\ [][StepNext]_vars

\* ------------------------------------------------------------------------
\* Navigation after a parse: a document is parsed into a store of just
\* enough tokens or of one more, then one navigation function is called on
\* one of its tokens
\* ------------------------------------------------------------------------

\* an integer inside as many arrays as the level field counts, and after it
\* an integer in the outermost array
DeepSibling ==
    Input("deep",
          <<Seg(<<Ch.lbracket>>, DeepLevels - 1), Seg(<<49>>, 1),
            Seg(<<Ch.rbracket>>, DeepLevels - 2),
            Seg(<<Ch.comma, 53, Ch.rbracket, Ch.nul>>, 1)>>,
          2 * DeepLevels + 1, TRUE,
          [i \in 1..(DeepLevels + 1) |->
              IF i < DeepLevels
              THEN Tok(MU_JSON_TOKEN_TYPE_ARRAY, i - 1, i - 1,
                       IF i = 1 THEN 2 * DeepLevels + 1 ELSE 2 * (DeepLevels - 1 - i) + 3)
              ELSE IF i = DeepLevels
              THEN Tok(MU_JSON_TOKEN_TYPE_INTEGER, DeepLevels - 1, DeepLevels - 1, 1)
              ELSE Tok(MU_JSON_TOKEN_TYPE_INTEGER, 1, 2 * DeepLevels - 1, 1)],
          "none")

NavInputs == Docs \cup {DeepPair, DeepSibling}

NavFunctions ==
    {"mu_json_find_root_token", "mu_json_find_prev_token", "mu_json_find_next_token",
     "mu_json_find_parent_token", "mu_json_find_child_token",
     "mu_json_find_next_sibling_token", "mu_json_find_prev_sibling_token"}

\* the navigation function of that name on a token of the store mem
Navigate(fn, mem, token) ==
    CASE fn = "mu_json_find_root_token" -> mu_json_find_root_token(mem, token)
      [] fn = "mu_json_find_prev_token" -> mu_json_find_prev_token(mem, token)
      [] fn = "mu_json_find_next_token" -> mu_json_find_next_token(mem, token)
      [] fn = "mu_json_find_parent_token" -> mu_json_find_parent_token(mem, token)
      [] fn = "mu_json_find_child_token" -> mu_json_find_child_token(mem, token)
      [] fn = "mu_json_find_next_sibling_token" ->
             mu_json_find_next_sibling_token(mem, token)
      [] fn = "mu_json_find_prev_sibling_token" ->
             mu_json_find_prev_sibling_token(mem, token)

NavInit ==
    /\ input \in NavInputs
    /\ size \in {Len(input.expect), Len(input.expect) + 1}
    /\ store0 = "garbage"
    /\ before = Before(store0, size)
    /\ tokens = before
    /\ call = NoCall
    /\ result = NoResult
    /\ emitter = NoJems
    /\ jems_call = NoJemsCall

\* the tokens a navigation function is called on: of the documents at the
\* limit of the level field the innermost MaxNodes
NavTokens(in, n) ==
    IF in.family = "deep" THEN {t \in (n - MaxNodes)..(n - 1) : t >= 0} ELSE 0..(n - 1)

\* found = mu_json_find_..._token(token), after a parse that returned a
\* token count
NavCall ==
    /\ call.fn = "buffer"
    /\ result.returned /\ result.ret > 0
    /\ \E fn \in NavFunctions, token \in NavTokens(input, result.ret) :
         /\ call' = [call EXCEPT !.fn = fn]
         /\ result' = [returned |-> TRUE, ret |-> result.ret, token |-> token,
                       found |-> Navigate(fn, tokens, token)]
    /\ UNCHANGED <<input, size, store0, before, tokens, emitter, jems_call>>

NavNext == ParseWindow \/ NavCall

NavSpec == NavInit /\ [][NavNext]_vars

\* ------------------------------------------------------------------------
\* The claims
\* ------------------------------------------------------------------------

\* the call has returned to the caller
Returned == call.fn # "none" /\ result.returned

\* the call has returned, and its arguments were a non-null input of at
\* least one byte and a non-null store of at least one token
GoodCall ==
    /\ Returned
    /\ ~call.str_null /\ ~call.store_null
    /\ call.str_len >= 1 /\ call.max_tokens >= 1

\* the call has returned a token count
Succeeded == Returned /\ result.ret > 0

C2_OneLast ==
    Succeeded =>
        \A i \in 0..(call.max_tokens - 1) : (tokens[i].is_last = 1) <=> (i = result.ret - 1)

\* a successful parse into a store in which an earlier parse had marked a
\* later token as the last
C2_Witness ==
    /\ Succeeded
    /\ store0 = "stale"
    /\ \E i \in result.ret..(call.max_tokens - 1) : before[i].is_last = 1

\* C3: after a successful parse token 0 has level 0 and no other token has,
\* at every nesting depth; so is_first holds of token 0 alone and
\* find_root_token ends at token 0 from every token.
C3_OneRoot ==
    Succeeded =>
        /\ tokens[0].level = 0
        /\ \A i \in 1..(result.ret - 1) : tokens[i].level # 0
        /\ \A i \in 0..(result.ret - 1) : mu_json_token_is_first(tokens, i) <=> (i = 0)
        /\ \A i \in 0..(result.ret - 1) : mu_json_find_root_token(tokens, i) = 0

\* C4: the parse of a well-formed document into a store that is large
\* enough returns the number of its values and keys, and token i has the
\* type of the i-th of them in pre-order and the number of containers around
\* it as its level.
C4_PreOrder ==
    GoodCall /\ input.wf /\ call.max_tokens >= Len(input.expect) =>
        /\ result.ret = Len(input.expect)
        /\ \A i \in 1..Len(input.expect) :
             /\ tokens[i - 1].type = input.expect[i].type
             /\ tokens[i - 1].level = input.expect[i].level

\* the bytes a number is made of
NumberBytes == {Ch.plus, Ch.minus, Ch.dot, Ch.e, Ch.uE} \cup (Ch.d0)..(Ch.d9)

\* the n bytes of the input from offset i
Text(i, n) == [k \in 1..n |-> Byte(input.str, i + k - 1)]

\* the token's slice is the whole text of a value of its type
ExactExtent(tok) ==
    /\ tok.str >= 0
    /\ tok.str_len >= 1
    /\ tok.str + tok.str_len <= input.len
    /\ IF tok.type = MU_JSON_TOKEN_TYPE_ARRAY
       THEN /\ tok.str_len >= 2
            /\ Byte(input.str, tok.str) = Ch.lbracket
            /\ Byte(input.str, tok.str + tok.str_len - 1) = Ch.rbracket
       ELSE IF tok.type = MU_JSON_TOKEN_TYPE_OBJECT
       THEN /\ tok.str_len >= 2
            /\ Byte(input.str, tok.str) = Ch.lbrace
            /\ Byte(input.str, tok.str + tok.str_len - 1) = Ch.rbrace
       ELSE IF tok.type = MU_JSON_TOKEN_TYPE_STRING
       THEN /\ tok.str_len >= 2
            /\ Byte(input.str, tok.str) = Ch.dq
            /\ Byte(input.str, tok.str + tok.str_len - 1) = Ch.dq
       ELSE IF tok.type \in {MU_JSON_TOKEN_TYPE_NUMBER, MU_JSON_TOKEN_TYPE_INTEGER}
       THEN /\ \A k \in 0..(tok.str_len - 1) : Byte(input.str, tok.str + k) \in NumberBytes
            /\ Byte(input.str, tok.str + tok.str_len) \notin NumberBytes
       ELSE IF tok.type = MU_JSON_TOKEN_TYPE_TRUE
       THEN Text(tok.str, tok.str_len) = Literal.true
       ELSE IF tok.type = MU_JSON_TOKEN_TYPE_FALSE
       THEN Text(tok.str, tok.str_len) = Literal.false
       ELSE IF tok.type = MU_JSON_TOKEN_TYPE_NULL
       THEN Text(tok.str, tok.str_len) = Literal.null
       ELSE FALSE

\* C5: after a successful parse every token's slice is exactly the text of
\* its value, brackets and quotes included and nothing more, and its stored
\* length is the number of bytes of that text, whatever the input's length.
C5_ExactExtent ==
    Succeeded =>
        \A i \in 0..(result.ret - 1) :
            /\ ExactExtent(tokens[i])
            /\ input.wf =>
                 /\ tokens[i].str = input.expect[i + 1].start
                 /\ tokens[i].str_len = input.expect[i + 1].len

\* token i is an ancestor of token j, by the levels of the tokens between
Ancestor(i, j) == i < j /\ \A k \in (i + 1)..j : tokens[k].level > tokens[i].level

\* C6: after a successful parse the slices start at increasing offsets, a
\* descendant's slice lies strictly inside its ancestor's, and the slices of
\* two tokens neither of which is an ancestor of the other are disjoint.
C6_Nesting ==
    Succeeded =>
        \A i \in 0..(result.ret - 1) : \A j \in (i + 1)..(result.ret - 1) :
            /\ tokens[i].str < tokens[j].str
            /\ IF Ancestor(i, j)
               THEN tokens[j].str + tokens[j].str_len < tokens[i].str + tokens[i].str_len
               ELSE tokens[i].str + tokens[i].str_len <= tokens[j].str

\* C7: a well-formed document of k values and keys parses to k when
\* max_tokens >= k and to NOT_ENOUGH_TOKENS when max_tokens < k; no call
\* writes to a token at an index >= max_tokens.
C7_Capacity ==
    GoodCall =>
        /\ input.wf /\ call.max_tokens >= Len(input.expect) =>
             result.ret = Len(input.expect)
        /\ input.wf /\ call.max_tokens < Len(input.expect) =>
             result.ret = MU_JSON_ERR_NOT_ENOUGH_TOKENS
        /\ \A i \in DOMAIN tokens :
             i >= call.max_tokens => tokens[i] = before[i]

\* a document parsed into a store one token too small
C7_Witness ==
    /\ GoodCall /\ input.wf
    /\ call.max_tokens = Len(input.expect) - 1
    /\ result.ret = MU_JSON_ERR_NOT_ENOUGH_TOKENS

\* the call was made with a bad argument: a null input or store, a length
\* or a max_tokens that is zero or negative
BadArgument ==
    /\ call.fn # "none"
    /\ call.str_null \/ call.store_null \/ call.str_len <= 0 \/ call.max_tokens <= 0

\* C8: both entry points answer a null input, a null store, a length <= 0
\* and a max_tokens <= 0 with BAD_ARGUMENT and do nothing else.
C8_BadArgument ==
    BadArgument =>
        /\ result.returned
        /\ result.ret = MU_JSON_ERR_BAD_ARGUMENT
        /\ tokens = before

\* the store the same call leaves when every token is zero before it
FromZero ==
    parse_json(IF call.str_null THEN NullPtr ELSE Ptr(input.str), call.str_len,
               Ptr([i \in DOMAIN tokens |-> ZeroToken]), call.max_tokens).mem

\* nothing of what the store held before the call is left in its max_tokens
\* tokens
NothingSurvives ==
    LET SameAs(mem) == \A i \in 0..(call.max_tokens - 1) : tokens[i] = mem[i]
    IN  SameAs(FromZero)

\* C9 as stated: every call with a non-null store, also one that returns an
\* argument error, zeroes all max_tokens tokens before anything else, so
\* nothing of their earlier content survives.
C9_AlwaysZeroed == Returned /\ ~call.store_null => NothingSurvives

\* C9 amended: a call whose input and store are non-null and whose length
\* and max_tokens are not zero leaves nothing of the earlier content of the
\* max_tokens tokens; a call that returns BAD_ARGUMENT leaves the store as
\* it was.
C9_ZeroedOnceAccepted ==
    /\ Returned /\ ~call.str_null /\ ~call.store_null
         /\ call.str_len # 0 /\ call.max_tokens # 0
       => NothingSurvives
    /\ Returned /\ result.ret = MU_JSON_ERR_BAD_ARGUMENT
       => tokens = before

\* a parse that fails after an earlier parse had written tokens it does not
\* reach, which are zero now
C9_Witness ==
    /\ Returned
    /\ result.ret < 0 /\ result.ret # MU_JSON_ERR_BAD_ARGUMENT
    /\ store0 \in {"stale", "failed"}
    /\ \E i \in result.token_count..(call.max_tokens - 1) :
         /\ before[i].type # MU_JSON_TOKEN_TYPE_UNKNOWN
         /\ tokens[i] = ZeroToken

C11_NeverInternal == Returned => result.ret # MU_JSON_ERR_INTERNAL

\* where a document was cut, from the j bytes kept and its tokens:
\*   "string", "escape", "hex", "keyword"   as for HbClass
\*   "exponent"  inside a number, after its e / E or the sign behind it
\*   "number"    elsewhere inside a number
\*   "start"     before the top-level value
\*   "open"      after the '[' or '{' of a container
\*   "comma", "colon"   after that separator
\*   "key", "value"     after a member key, after a value inside a container
\*   "end"       after the top-level value
CutClass(text, toks, j) ==
    LET c == HbClass(text, toks, j)
        last == LastNonWs(text, j)
        IsKey(k) ==
            /\ toks[k].type = MU_JSON_TOKEN_TYPE_STRING
            /\ toks[k].level > 0
            /\ LET parent == Max({i \in 1..(k - 1) : toks[i].level = toks[k].level - 1})
               IN  /\ toks[parent].type = MU_JSON_TOKEN_TYPE_OBJECT
                   /\ Cardinality({i \in (parent + 1)..(k - 1) :
                                      toks[i].level = toks[k].level}) % 2 = 0
    IN
    IF c \in {"string", "escape", "hex", "keyword"} THEN c
    ELSE IF c = "number" THEN
        (IF \/ text[j] \in {Ch.e, Ch.uE}
            \/ j > 1 /\ text[j] \in {Ch.plus, Ch.minus} /\ text[j - 1] \in {Ch.e, Ch.uE}
         THEN "exponent" ELSE "number")
    ELSE IF last = 0 THEN "start"
    ELSE IF text[last] \in {Ch.lbracket, Ch.lbrace} THEN "open"
    ELSE IF text[last] = Ch.comma THEN "comma"
    ELSE IF text[last] = Ch.colon THEN "colon"
    ELSE IF c = "separator" THEN
        (IF \E k \in DOMAIN toks : toks[k].start + toks[k].len = last /\ IsKey(k)
         THEN "key" ELSE "value")
    ELSE "end"

\* where the input, a document cut short, was cut
InputCut == CutClass(Text(0, input.len), input.expect, input.len)

\* C12: the parse of a proper prefix of a well-formed document that ends in
\* the middle of a string, of a number's exponent, of a container (after its
\* opening bracket, an element, a ',', a key or a ':') or of an escape
\* sequence (after the backslash or inside \uXXXX) returns INCOMPLETE.
C12_CutIsIncomplete ==
    GoodCall /\ input.family = "cut"
        /\ InputCut \in {"string", "exponent", "open", "value", "comma", "key",
                         "colon", "escape", "hex"}
    => result.ret = MU_JSON_ERR_INCOMPLETE

\* the bytes behind the top-level value of an input of the family "tail"
InputTail ==
    LET val == input.expect[1]
    IN  Text(val.start + val.len, input.len - val.start - val.len)

OnlyWs(text) == \A i \in DOMAIN text : text[i] \in JsonWs

\* the bytes behind the value go on with the text of a number
GoesOnAsNumber ==
    /\ input.expect[1].type \in {MU_JSON_TOKEN_TYPE_NUMBER, MU_JSON_TOKEN_TYPE_INTEGER}
    /\ InputTail[1] \in (Ch.d0)..(Ch.d9) \cup {Ch.dot, Ch.e, Ch.uE}

ByteAt(text, i) == IF i >= 1 /\ i <= Len(text) THEN text[i] ELSE -1

\* the first position from i on whose byte is not in S
RunEnd(text, i, S) ==
    CHOOSE j \in i..(Len(text) + 1) :
        /\ ByteAt(text, j) \notin S
        /\ \A k \in i..(j - 1) : text[k] \in S

RfcWs(text, i) == RunEnd(text, i, JsonWs)

RfcDigits == (Ch.d0)..(Ch.d9)

RfcHex == RfcDigits \cup (Ch.uA)..(Ch.uF) \cup (Ch.a)..(Ch.f)

\* number = [ minus ] int [ frac ] [ exp ]
RfcNumber(text, i) ==
    LET ExpPart(c) ==
            IF c = 0 THEN 0
            ELSE IF ByteAt(text, c) \notin {Ch.e, Ch.uE} THEN c
            ELSE LET Digits(d) ==
                         IF ByteAt(text, d) \in RfcDigits THEN RunEnd(text, d, RfcDigits)
                         ELSE 0
                 IN  Digits(IF ByteAt(text, c + 1) \in {Ch.plus, Ch.minus}
                            THEN c + 2 ELSE c + 1)
        FracPart(b) ==
            IF b = 0 THEN 0
            ELSE IF ByteAt(text, b) # Ch.dot THEN ExpPart(b)
            ELSE IF ByteAt(text, b + 1) \in RfcDigits
            THEN ExpPart(RunEnd(text, b + 1, RfcDigits))
            ELSE 0
        IntPart(a) ==
            IF ByteAt(text, a) = Ch.d0 THEN FracPart(a + 1)
            ELSE IF ByteAt(text, a) \in RfcDigits THEN FracPart(RunEnd(text, a, RfcDigits))
            ELSE 0
    IN  IntPart(IF ByteAt(text, i) = Ch.minus THEN i + 1 ELSE i)

\* *char quotation-mark, from position i behind the opening quotation mark
RECURSIVE RfcChars(_, _)
RfcChars(text, i) ==
    LET Char(c) ==
            IF c = Ch.dq THEN i + 1
            ELSE IF c = Ch.bslash THEN
                (IF ByteAt(text, i + 1) \in {Ch.dq, Ch.bslash, Ch.slash, Ch.b, Ch.f,
                                            Ch.n, Ch.r, Ch.t}
                 THEN RfcChars(text, i + 2)
                 ELSE IF /\ ByteAt(text, i + 1) = Ch.u
                         /\ \A k \in 2..5 : ByteAt(text, i + k) \in RfcHex
                 THEN RfcChars(text, i + 6)
                 ELSE 0)
            ELSE IF c < 32 \/ c >= 128 THEN 0
            ELSE RfcChars(text, i + 1)
    IN  Char(ByteAt(text, i))

RfcString(text, i) == IF ByteAt(text, i) = Ch.dq THEN RfcChars(text, i + 1) ELSE 0

\* a production's match: its end and the number of values and names in it
RfcMatch(end, n) == [end |-> end, n |-> n]

NoMatch == RfcMatch(0, 0)

RECURSIVE RfcValue(_, _)
RECURSIVE RfcValues(_, _)
RECURSIVE RfcMembers(_, _)

\* value = false / null / true / object / array / number / string
RfcValue(text, i) ==
    LET Keyword(word) ==
            IF \A k \in DOMAIN word : ByteAt(text, i + k - 1) = word[k]
            THEN RfcMatch(i + Len(word), 1) ELSE NoMatch
        Scalar(end) == IF end = 0 THEN NoMatch ELSE RfcMatch(end, 1)
        Container(m) == IF m.end = 0 THEN NoMatch ELSE RfcMatch(m.end, m.n + 1)
        Items(close, j, is_object) ==
            IF ByteAt(text, j) = close THEN RfcMatch(j + 1, 1)
            ELSE Container(IF is_object THEN RfcMembers(text, j) ELSE RfcValues(text, j))
        Value(c) ==
            IF c = Ch.lbracket THEN Items(Ch.rbracket, RfcWs(text, i + 1), FALSE)
            ELSE IF c = Ch.lbrace THEN Items(Ch.rbrace, RfcWs(text, i + 1), TRUE)
            ELSE IF c = Ch.dq THEN Scalar(RfcString(text, i))
            ELSE IF c = Ch.t THEN Keyword(Literal.true)
            ELSE IF c = Ch.f THEN Keyword(Literal.false)
            ELSE IF c = Ch.n THEN Keyword(Literal.null)
            ELSE Scalar(RfcNumber(text, i))
    IN  Value(ByteAt(text, i))

\* value *( value-separator value ) end-array, from the first value
RfcValues(text, i) ==
    LET Rest(m) == IF m.end = 0 THEN NoMatch ELSE m
        More(v, j) ==
            IF ByteAt(text, j) = Ch.rbracket THEN RfcMatch(j + 1, v.n)
            ELSE IF ByteAt(text, j) = Ch.comma
            THEN LET Sum(m) == IF m.end = 0 THEN NoMatch ELSE RfcMatch(m.end, v.n + m.n)
                 IN  Sum(RfcValues(text, RfcWs(text, j + 1)))
            ELSE NoMatch
        First(v) == IF v.end = 0 THEN NoMatch ELSE More(v, RfcWs(text, v.end))
    IN  First(RfcValue(text, i))

\* member *( value-separator member ) end-object, from the first member;
\* member = string name-separator value
RfcMembers(text, i) ==
    LET More(v, j) ==
            IF ByteAt(text, j) = Ch.rbrace THEN RfcMatch(j + 1, v.n + 1)
            ELSE IF ByteAt(text, j) = Ch.comma
            THEN LET Sum(m) ==
                         IF m.end = 0 THEN NoMatch ELSE RfcMatch(m.end, v.n + 1 + m.n)
                 IN  Sum(RfcMembers(text, RfcWs(text, j + 1)))
            ELSE NoMatch
        Member(v) == IF v.end = 0 THEN NoMatch ELSE More(v, RfcWs(text, v.end))
        Colon(j) ==
            IF ByteAt(text, j) = Ch.colon
            THEN Member(RfcValue(text, RfcWs(text, j + 1)))
            ELSE NoMatch
        Name(end) == IF end = 0 THEN NoMatch ELSE Colon(RfcWs(text, end))
    IN  Name(RfcString(text, i))

\* JSON-text = ws value ws: the number of values and names of the text, or
\* 0 if it is no JSON text
RfcJsonText(text) ==
    LET Whole(v) ==
            IF v.end # 0 /\ RfcWs(text, v.end) = Len(text) + 1 THEN v.n ELSE 0
    IN  Whole(RfcValue(text, RfcWs(text, 1)))

\* the number of values and names of the bytes passed to the call if they
\* are a JSON text, else 0; the inputs at the limits of the bit-fields are
\* JSON texts as they are built
PassedJsonText ==
    IF input.family \in {"deep", "long"} THEN Len(input.expect)
    ELSE RfcJsonText(Text(0, call.str_len))

C15_NumberGrammar ==
    GoodCall /\ input.family = "number" =>
        IF input.wf
        THEN /\ result.ret = 1
             /\ tokens[0].str = 0 /\ tokens[0].str_len = input.len
             /\ tokens[0].type \in {MU_JSON_TOKEN_TYPE_INTEGER, MU_JSON_TOKEN_TYPE_NUMBER}
             /\ tokens[0].type = MU_JSON_TOKEN_TYPE_INTEGER
                <=> \A i \in 0..(input.len - 1) :
                       Byte(input.str, i) \notin {Ch.dot, Ch.e, Ch.uE}
        ELSE result.ret < 0

\* -0 parsed as an INTEGER, and a text with a fraction and a signed exponent
\* as a NUMBER
C15_Witness ==
    /\ GoodCall /\ input.family = "number" /\ result.ret = 1
    /\ \/ /\ Text(0, input.len) = <<Ch.minus, Ch.d0>>
          /\ tokens[0].type = MU_JSON_TOKEN_TYPE_INTEGER
       \/ /\ Text(0, input.len) = <<Ch.minus, 49, Ch.dot, 50, 53, Ch.uE, Ch.plus, 51>>
          /\ tokens[0].type = MU_JSON_TOKEN_TYPE_NUMBER

\* the parse has returned the tokens of a well-formed document, all of them
Tokenized == Succeeded /\ input.wf /\ result.ret = Len(input.expect)

\* the tokens looked at: all of them, and of the documents at the limit of
\* the level field the innermost MaxNodes
Visited ==
    IF input.family = "deep" THEN (result.ret - MaxNodes)..(result.ret - 1)
    ELSE 0..(result.ret - 1)

\* the number of containers around the i-th value or name of the document
Depth(i) == input.expect[i + 1].level

\* C16: on the tokens of a successful parse find_prev_token is NULL for
\* token 0 and else the token before, find_next_token is NULL for the last
\* token and else the token behind, and each undoes the other.
C16_PrevAndNext ==
    Tokenized =>
        \A t \in Visited :
            LET Undone(prev, next) ==
                    /\ prev = (IF t = 0 THEN NULL ELSE t - 1)
                    /\ next = (IF t = result.ret - 1 THEN NULL ELSE t + 1)
                    /\ prev # NULL => mu_json_find_next_token(tokens, prev) = t
                    /\ next # NULL => mu_json_find_prev_token(tokens, next) = t
            IN  Undone(mu_json_find_prev_token(tokens, t),
                       mu_json_find_next_token(tokens, t))

\* the container around the i-th value or name of the document: the nearest
\* one before it that is one level up
Container(i) ==
    IF Depth(i) = 0 THEN NULL
    ELSE Max({j \in 0..(i - 1) : Depth(j) = Depth(i) - 1})

\* C17: on the tokens of a successful parse find_parent_token is NULL for
\* the root and else the nearest token before with the level one less, the
\* container whose text encloses the token's; find_child_token is the token
\* behind if that has a greater level and else NULL; the parent of the child
\* of a container is that container.
C17_ParentAndChild ==
    Tokenized =>
        \A t \in Visited :
            LET Related(parent, child) ==
                    /\ parent = Container(t)
                    /\ parent # NULL =>
                         /\ tokens[parent].level = tokens[t].level - 1
                         /\ \A j \in (parent + 1)..(t - 1) :
                                tokens[j].level # tokens[t].level - 1
                         /\ tokens[parent].str < tokens[t].str
                         /\ tokens[t].str + tokens[t].str_len
                                < tokens[parent].str + tokens[parent].str_len
                    /\ child = (IF t + 1 < result.ret /\ tokens[t + 1].level > tokens[t].level
                                THEN t + 1 ELSE NULL)
                    /\ child = (IF t + 1 < result.ret /\ Depth(t + 1) > Depth(t)
                                THEN t + 1 ELSE NULL)
                    /\ child # NULL => mu_json_find_parent_token(tokens, child) = t
            IN  Related(mu_json_find_parent_token(tokens, t),
                        mu_json_find_child_token(tokens, t))

Min(S) == CHOOSE x \in S : \A y \in S : x <= y

\* the sibling of the i-th value or name of the document in direction m: the
\* nearest token that way that is not deeper, if it is on the same level
Sibling(i, m) ==
    LET Nearest(others) ==
            IF others = {} THEN NULL
            ELSE LET Same(j) == IF Depth(j) = Depth(i) THEN j ELSE NULL
                 IN  Same(IF m = "next" THEN Min(others) ELSE Max(others))
    IN  Nearest({j \in (IF m = "next" THEN (i + 1)..(result.ret - 1) ELSE 0..(i - 1)) :
                    Depth(j) <= Depth(i)})

\* C18: on the tokens of a successful parse find_next_sibling_token is the
\* nearest token behind with the same level and the same parent, and NULL if
\* a token of a smaller level or the end comes first;
\* find_prev_sibling_token is its mirror image; both are NULL for the root;
\* each undoes the other.
C18_Siblings ==
    Tokenized =>
        \A t \in Visited :
            LET Mirrored(prev, next) ==
                    /\ prev = Sibling(t, "prev")
                    /\ next = Sibling(t, "next")
                    /\ t = 0 => prev = NULL /\ next = NULL
                    /\ prev # NULL => mu_json_find_next_sibling_token(tokens, prev) = t
                    /\ next # NULL => mu_json_find_prev_sibling_token(tokens, next) = t
            IN  Mirrored(mu_json_find_prev_sibling_token(tokens, t),
                         mu_json_find_next_sibling_token(tokens, t))

\* an emitter call has been made
Emitted == jems_call.fn # "none"

\* the frame that was current before the call
FrameBefore == jems_call.before.levels[jems_call.before.curr_level]

\* the calls that open a container, bare or behind a key, and those that
\* close one, with the bracket of each
Openers ==
    [mu_jems_object_open |-> Ch.lbrace, mu_jems_key_object_open |-> Ch.lbrace,
     mu_jems_array_open |-> Ch.lbracket, mu_jems_key_array_open |-> Ch.lbracket]

Closers == [mu_jems_object_close |-> Ch.rbrace, mu_jems_array_close |-> Ch.rbracket]

\* C19: after mu_jems_init with max_level >= 1 and after any sequence of
\* emitter calls, 0 <= curr_level <= max_level - 1, so the current frame is
\* one of the max_level frames of the caller's array; an object_open or
\* array_open at level max_level - 1 still emits its bracket and leaves
\* curr_level as it was, and an object_close or array_close at level 0
\* still emits its bracket and leaves curr_level 0.
C19_LevelClamped ==
    /\ emitter.max_level >= 1
    /\ 0 <= mu_jems_curr_level(emitter)
    /\ mu_jems_curr_level(emitter) <= emitter.max_level - 1
    /\ DOMAIN emitter.levels = 0..(emitter.max_level - 1)
    /\ level_ref(emitter) \in DOMAIN emitter.levels
    /\ (/\ jems_call.fn \in DOMAIN Openers
        /\ jems_call.before.curr_level = jems_call.before.max_level - 1)
       => /\ emitter.arg # <<>>
          /\ emitter.arg[Len(emitter.arg)] = Openers[jems_call.fn]
          /\ emitter.curr_level = jems_call.before.curr_level
    /\ (jems_call.fn \in DOMAIN Closers /\ jems_call.before.curr_level = 0)
       => /\ emitter.arg = <<Closers[jems_call.fn]>>
          /\ emitter.curr_level = 0

\* an array was opened in the last frame of an array of more than one frame
C19_Witness ==
    /\ jems_call.fn = "mu_jems_array_open"
    /\ jems_call.before.max_level > 1
    /\ jems_call.before.curr_level = jems_call.before.max_level - 1
    /\ emitter.curr_level = emitter.max_level - 1
    /\ emitter.arg = <<Ch.lbracket>>

\* the calls that emit one key or one value
Emissions ==
    {"mu_jems_object_open", "mu_jems_array_open", "mu_jems_number",
     "mu_jems_integer", "mu_jems_string", "mu_jems_bytes", "mu_jems_bool",
     "mu_jems_true", "mu_jems_false", "mu_jems_null", "mu_jems_literal"}

\* the separator due in a frame
Separator(frame) ==
    IF frame.item_count = 0 THEN <<>>
    ELSE IF frame.is_object /\ frame.item_count % 2 = 1 THEN <<Ch.colon>>
    ELSE <<Ch.comma>>

\* the frames of the array other than frame l hold what they held before the
\* call, but for a frame the call has entered, which starts empty
OtherFramesKept(l) ==
    \A k \in DOMAIN emitter.levels \ {l} :
        \/ emitter.levels[k] = jems_call.before.levels[k]
        \/ /\ k = emitter.curr_level
           /\ k = l + 1
           /\ emitter.levels[k].item_count = 0

\* C20: every emission of a key or a value (object_open, array_open, number,
\* integer, string, bytes, bool, true, false, null, literal) looks at the
\* frame that is current before the call: it emits nothing ahead of the
\* value if item_count is 0, otherwise ',' in a root or array frame, and in
\* an object frame ':' if item_count is odd and ',' if it is even; it then
\* adds exactly one to the item_count of that frame.  object_close and
\* array_close emit no separator and change the item_count of no frame.
C20_Commify ==
    /\ (Emitted /\ jems_call.fn \in Emissions) =>
           LET l == jems_call.before.curr_level
               sep == Separator(FrameBefore)
               rest == SubSeq(emitter.arg, Len(sep) + 1, Len(emitter.arg))
           IN  /\ Len(emitter.arg) >= Len(sep)
               /\ SubSeq(emitter.arg, 1, Len(sep)) = sep
               /\ rest = <<>> \/ rest[1] \notin {Ch.comma, Ch.colon}
               /\ emitter.levels[l].item_count = FrameBefore.item_count + 1
               /\ emitter.levels[l].is_object = FrameBefore.is_object
               /\ OtherFramesKept(l)
    /\ (Emitted /\ jems_call.fn \in DOMAIN Closers) =>
           /\ emitter.arg = <<Closers[jems_call.fn]>>
           /\ emitter.levels = jems_call.before.levels

\* a value went into an object frame behind a key, after ':'
C20_Witness ==
    /\ jems_call.fn = "mu_jems_integer"
    /\ FrameBefore.is_object
    /\ FrameBefore.item_count = 1
    /\ jems_call.before.curr_level > 0
    /\ emitter.arg = <<Ch.colon, 55>>

\* the script has been carried out and its output has been parsed
ScriptParsed == input.family = "script" /\ Returned

\* the containers open after the first i calls, as the calls tell
RECURSIVE OpenAfter(_, _)
OpenAfter(calls, i) ==
    IF i = 0 THEN 0
    ELSE OpenAfter(calls, i - 1)
         + (IF calls[i].fn \in DOMAIN Openers THEN 1
            ELSE IF calls[i].fn \in DOMAIN Closers THEN -1 ELSE 0)

\* the most containers the calls have open at once
Nesting(calls) == Max({OpenAfter(calls, i) : i \in 0..Len(calls)})

\* the type of the value a call writes, bare or behind its key
ValueType(c) ==
    LET plain == IF c.fn \in DOMAIN KeyVariant THEN c.fn
                 ELSE CHOOSE f \in DOMAIN KeyVariant : KeyVariant[f] = c.fn
    IN  CASE plain = "mu_jems_object_open" -> MU_JSON_TOKEN_TYPE_OBJECT
          [] plain = "mu_jems_array_open" -> MU_JSON_TOKEN_TYPE_ARRAY
          [] plain = "mu_jems_integer" -> MU_JSON_TOKEN_TYPE_INTEGER
          [] plain = "mu_jems_string" -> MU_JSON_TOKEN_TYPE_STRING
          [] plain = "mu_jems_true" -> MU_JSON_TOKEN_TYPE_TRUE
          [] plain = "mu_jems_false" -> MU_JSON_TOKEN_TYPE_FALSE
          [] plain = "mu_jems_null" -> MU_JSON_TOKEN_TYPE_NULL
          [] plain = "mu_jems_bool" ->
                IF c.args[Len(c.args)] THEN MU_JSON_TOKEN_TYPE_TRUE
                ELSE MU_JSON_TOKEN_TYPE_FALSE
          [] OTHER -> MU_JSON_TOKEN_TYPE_UNKNOWN

\* the types and levels of the tokens that the calls from the i-th on
\* describe, in the order of the calls
RECURSIVE Shape(_, _)
Shape(calls, i) ==
    IF i > Len(calls) THEN <<>>
    ELSE LET c == calls[i]
             level == OpenAfter(calls, i - 1)
         IN  (IF c.fn \in DOMAIN Closers THEN <<>>
              ELSE (IF c.fn \in DOMAIN KeyVariant THEN <<>>
                    ELSE <<[type |-> MU_JSON_TOKEN_TYPE_STRING, level |-> level]>>)
                   \o <<[type |-> ValueType(c), level |-> level]>>)
             \o Shape(calls, i + 1)

\* the offsets of the output that lie inside one of its string tokens
InStrings ==
    UNION {tokens[k].str..(tokens[k].str + tokens[k].str_len - 1) :
              k \in {j \in 0..(result.ret - 1) :
                        tokens[j].type = MU_JSON_TOKEN_TYPE_STRING}}

\* outside the strings no ',' or ':' follows an opening bracket, precedes a
\* closing bracket or follows another ',' or ':'
NoStraySeparator ==
    LET text == emitter.arg
        at == (1..Len(text)) \ {i + 1 : i \in InStrings}
        seps == {Ch.comma, Ch.colon}
    IN  \A i \in at :
            text[i] \in seps =>
                /\ i > 1 /\ i < Len(text)
                /\ text[i - 1] \notin {Ch.lbrace, Ch.lbracket} \cup seps
                /\ text[i + 1] \notin {Ch.rbrace, Ch.rbracket} \cup seps

\* C21: for a well-sequenced call sequence on a fresh emitter (one top-level
\* value; in an object every value behind one string key; every open closed
\* by the close of its kind; never more than max_level - 1 containers open;
\* the values containers, integers, strings, booleans and null) the
\* tokenizer accepts the bytes emitted, the types and levels of its tokens
\* are those of the calls in their order, and no ',' or ':' stands after an
\* opener, before a closer or next to another separator.
C21_EmittedIsParsed ==
    (/\ ScriptParsed
     /\ input.kind = "tree"
     /\ Nesting(input.calls) <= input.max_level - 1)
    => LET Same(shape) ==
               /\ result.ret = Len(shape)
               /\ \A i \in 1..Len(shape) :
                      /\ tokens[i - 1].type = shape[i].type
                      /\ tokens[i - 1].level = shape[i].level
               /\ NoStraySeparator
       IN  Same(Shape(input.calls, 1))

\* an object whose one member is an array of one value, written through
\* mu_jems_key_array_open on three frames, came back as MaxNodes tokens
C21_Witness ==
    /\ ScriptParsed
    /\ input.kind = "tree"
    /\ Nesting(input.calls) = 2
    /\ input.max_level = 3
    /\ result.ret = MaxNodes
    /\ tokens[0].type = MU_JSON_TOKEN_TYPE_OBJECT
    /\ \E i \in 1..Len(input.calls) : input.calls[i].fn = "mu_jems_key_array_open"

\* C22: when an otherwise well-sequenced call sequence has more than
\* max_level - 1 containers open at once, so that pushes are clamped, and
\* then writes its values and the balancing closes, the bytes emitted are
\* still valid JSON: the separators are placed correctly and the tokenizer
\* accepts the output once all closes are out.
C22_ClampedIsParsed ==
    (/\ ScriptParsed
     /\ input.kind = "tree"
     /\ Nesting(input.calls) > input.max_level - 1)
    => /\ result.ret > 0
       /\ NoStraySeparator

\* the script of C23 has been carried out
SampleDone ==
    /\ input.family = "script"
    /\ input.kind = "sample"
    /\ jems_call.n = Len(input.calls)

\* the decimal form of a double without added digits: the integer form if
\* it is integral, and else its fraction up to the last digit that is not 0
ShortDecimal(value) ==
    LET digits == value.digits
        sign == IF value.neg /\ (digits # <<Ch.d0>> \/ value.micros # 0)
                THEN <<Ch.minus>> ELSE <<>>
        six == Tail(DecimalDigits(1000000 + value.micros))
    IN  IF value.micros = 0 THEN sign \o digits
        ELSE sign \o digits \o <<Ch.dot>>
             \o SubSeq(six, 1, Max({k \in 1..Len(six) : six[k] # Ch.d0}))

\* C23: on a fresh emitter with enough frames the calls object_open;
\* key_integer("x", 1); key_array_open("y"); integer(2); number(3.5);
\* array_close; object_close hand the writer exactly the bytes
\* {"x":1,"y":[2,3.5]}; and number(v) writes the decimal integer form of an
\* integral v, and else a decimal form of v without added digits.
C23_SampleBytes ==
    /\ SampleDone =>
           emitter.arg = <<Ch.lbrace, Ch.dq, 120, Ch.dq, Ch.colon, 49, Ch.comma,
                           Ch.dq, 121, Ch.dq, Ch.colon, Ch.lbracket, 50, Ch.comma,
                           51, Ch.dot, 53, Ch.rbracket, Ch.rbrace>>
    /\ (input.family = "script" /\ jems_call.fn = "mu_jems_number") =>
           LET text == ShortDecimal(jems_call.args[1]) IN
           /\ Len(emitter.arg) >= Len(text)
           /\ SubSeq(emitter.arg, Len(emitter.arg) - Len(text) + 1, Len(emitter.arg))
              = text

\* the bytes C24 states for one byte of a string
QuotedByte(b) ==
    LET Hex(d) == IF d < 10 THEN 48 + d ELSE 97 + d - 10 IN
    IF b = Ch.dq \/ b = Ch.bslash THEN <<Ch.bslash, b>>
    ELSE IF 32 <= b /\ b < 127 THEN <<b>>
    ELSE <<Ch.bslash, Ch.u, 48, 48, Hex(b \div 16), Hex(b % 16)>>

RECURSIVE Quoted(_)
Quoted(bytes) ==
    IF bytes = <<>> THEN <<>> ELSE QuotedByte(Head(bytes)) \o Quoted(Tail(bytes))

\* a script of one mu_jems_string or mu_jems_bytes call has been carried out
QuotedDone ==
    /\ input.family = "script"
    /\ input.kind \in {"string", "bytes"}
    /\ jems_call.n = 1

\* C24: mu_jems_string(s) and mu_jems_bytes(buf, len) write a quote, then
\* for each byte in order the byte itself if it is printable ASCII other
\* than '"' and '\', a backslash and the byte if it is '"' or '\', and else
\* \u00 and its two lowercase hex digits, then a quote; and the tokenizer
\* accepts that output, taken alone, as one STRING token that spans all of
\* it.
C24_QuotedString ==
    /\ QuotedDone =>
           emitter.arg = <<Ch.dq>> \o Quoted(jems_call.args[1]) \o <<Ch.dq>>
    /\ (QuotedDone /\ Returned) =>
           /\ result.ret = 1
           /\ tokens[0].type = MU_JSON_TOKEN_TYPE_STRING
           /\ tokens[0].str = 0
           /\ tokens[0].str_len = Len(emitter.arg)

\* mu_jems_bytes has written 0x00, '"', '\' and 0xff in one string, and the
\* tokenizer has returned one token for it
C24_Witness ==
    /\ QuotedDone
    /\ Returned
    /\ input.kind = "bytes"
    /\ {0, Ch.dq, 255} \subseteq {jems_call.args[1][k] : k \in 1..jems_call.args[2]}
    /\ result.ret = 1

\* one call of every function of the emitter, keys and values one byte long
EveryCall ==
    LET plain == {JCall(fn, <<>>) :
                     fn \in {"mu_jems_reset", "mu_jems_object_open",
                             "mu_jems_object_close", "mu_jems_array_open",
                             "mu_jems_array_close", "mu_jems_true",
                             "mu_jems_false", "mu_jems_null"}}
                 \cup {JCall("mu_jems_number", <<Double(FALSE, 3, 0, 500000, "min")>>),
                       JCall("mu_jems_integer", <<7>>),
                       JCall("mu_jems_string", <<<<Ch.a>>>>),
                       JCall("mu_jems_bytes", <<<<0>>, 1>>),
                       JCall("mu_jems_bool", <<TRUE>>),
                       JCall("mu_jems_literal", <<<<Ch.a>>, 1>>)}
    IN  plain \cup {JCall(KeyVariant[c.fn], <<<<Ch.a>>>> \o c.args) :
                       c \in {d \in plain : d.fn \in DOMAIN KeyVariant}}

\* the calls carried out one after the other
RECURSIVE RunCalls(_, _)
RunCalls(jems, calls) ==
    IF calls = <<>> THEN jems ELSE RunCalls(mu_jems_call(jems, Head(calls)), Tail(calls))

\* what a frame array may hold that no call has written yet
StaleFrames ==
    {[item_count |-> 0, is_object |-> FALSE], [item_count |-> 3, is_object |-> TRUE]}

\* the emitter with every frame above the current one overwritten
Scrubbed(jems) ==
    [jems EXCEPT !.levels = [l \in DOMAIN @ |->
                                IF l > jems.curr_level
                                THEN [item_count |-> 3, is_object |-> TRUE] ELSE @[l]]]


\* the part of the emitter a call can read: the frames up to the current one
Live(jems) ==
    [curr_level |-> jems.curr_level, max_level |-> jems.max_level,
     levels |-> [l \in 0..jems.curr_level |-> jems.levels[l]]]

\* the state mu_jems_reset leaves: the root frame, cleared
IsReset(jems) ==
    /\ jems.curr_level = 0
    /\ jems.levels[0] = [item_count |-> 0, is_object |-> FALSE]

\* C25: mu_jems_reset, after any calls, sets curr_level to 0 and clears the
\* root frame, hands nothing to the writer, and leaves the frame array,
\* max_level and the sink as they were; the calls that follow it write the
\* bytes they would write on a freshly initialised emitter (two calls are
\* carried out on both, and in every state what a call writes and the
\* frames it leaves in use depend on the frames in use only); and
\* mu_jems_init leaves the emitter reset as well.
C25_Reset ==
    /\ jems_call.fn = "mu_jems_reset" =>
           /\ IsReset(emitter)
           /\ emitter.arg = jems_call.before.arg
           /\ emitter.max_level = jems_call.before.max_level
           /\ DOMAIN emitter.levels = DOMAIN jems_call.before.levels
           /\ \A l \in DOMAIN emitter.levels \ {0} :
                  emitter.levels[l] = jems_call.before.levels[l]
           /\ \A frame \in StaleFrames :
                  LET fresh == mu_jems_init(NoJems,
                                            [l \in DOMAIN emitter.levels |-> frame],
                                            emitter.max_level, <<>>)
                  IN  /\ Live(emitter) = Live(fresh)
                      /\ \A c1 \in FrameCalls : \A c2 \in FrameCalls :
                             RunCalls(emitter, <<c1, c2>>).arg = RunCalls(fresh, <<c1, c2>>).arg
    /\ (input.family = "none" /\ jems_call.n = 0) =>
           IsReset(emitter) /\ emitter.arg = <<>>
    /\ input.family = "none" =>
           \A c \in EveryCall :
               LET K(one, other) == one.arg = other.arg /\ Live(one) = Live(other)
               IN  K(mu_jems_call(Drained, c), mu_jems_call(Scrubbed(Drained), c))

\* mu_jems_reset was called with a container open in the last frame of
\* several, after values had been written to the root and to that frame
C25_Witness ==
    /\ jems_call.fn = "mu_jems_reset"
    /\ jems_call.before.max_level > 1
    /\ jems_call.before.curr_level = jems_call.before.max_level - 1
    /\ jems_call.before.levels[0].item_count > 0
    /\ jems_call.before.levels[jems_call.before.curr_level].item_count > 0
    /\ IsReset(emitter)

\* mu_json_error_name has returned
Named == input.family = "errnum" /\ call.fn = "mu_json_error_name"

\* the name of each code of mu_json.h
NameOf(code) ==
    CASE code = 0 -> "MU_JSON_ERR_NONE"
      [] code = -1 -> "MU_JSON_ERR_BAD_FORMAT"
      [] code = -2 -> "MU_JSON_ERR_INCOMPLETE"
      [] code = -3 -> "MU_JSON_ERR_NO_ENTITIES"
      [] code = -4 -> "MU_JSON_ERR_STRAY_INPUT"
      [] code = -5 -> "MU_JSON_ERR_NOT_ENOUGH_TOKENS"
      [] code = -6 -> "MU_JSON_ERR_BAD_ARGUMENT"
      [] code = -7 -> "MU_JSON_ERR_TOO_DEEP"
      [] code = -8 -> "MU_JSON_ERR_NO_MULTIBYTE"
      [] code = -9 -> "MU_JSON_ERR_INTERNAL"

\* C26 as stated: mu_json_error_name maps each of the codes 0 and -1..-9
\* to its own name, and every other code, below -9 or positive, to the
\* name for unknown errors.
C26_OthersUnknown ==
    Named => result.name = IF input.errnum \in -9..0 THEN NameOf(input.errnum)
                           ELSE "MU_JSON_ERR_UNKNOWN"

\* C26, amended: mu_json_error_name maps each of the codes 0 and -1..-9 to
\* its own name, every code below -9 down to INT_MIN + 1 to the name for
\* unknown errors, and every positive code to the name of MU_JSON_ERR_NONE.
C26_ErrorName ==
    (Named /\ input.errnum # INT_MIN) =>
        result.name = IF input.errnum \in -9..0 THEN NameOf(input.errnum)
                      ELSE IF input.errnum < 0 THEN "MU_JSON_ERR_UNKNOWN"
                      ELSE "MU_JSON_ERR_NONE"

\* the greatest code of the model, a positive one, has been named
C26_Witness ==
    /\ Named
    /\ input.errnum = MaxCode
    /\ result.name = "MU_JSON_ERR_NONE"

\* the first bytes of a window input, as many as its length says, and then
\* two bytes pad instead of what follows them in the caller's buffer
Padded(in, pad) ==
    <<Seg([k \in 1..(IF in.len > 0 THEN in.len ELSE 0) |-> Byte(in.str, k - 1)]
          \o <<pad, pad>>, 1)>>

\* bytes that would each send the tokenizer another way
Pads == {Ch.nul, Ch.sp, Ch.dq, Ch.bslash, Ch.d0, Ch.dot, Ch.e, Ch.comma, Ch.colon,
         Ch.rbracket, Ch.rbrace, Ch.a, 255}

\* the call on a window input has returned
WindowParsed == input.family = "window" /\ Returned

\* what the call has left is what it leaves whatever follows the window
SameBehindWindow ==
    \A pad \in Pads :
        \A o \in mu_json_parse_buffer(Ptr(Padded(input, pad)), call.str_len,
                                      Ptr(before), call.max_tokens) :
            /\ o.returned
            /\ o.ret = result.ret
            /\ o.str_pos = result.str_pos
            /\ o.mem = tokens

\* C27: for every input and capacity mu_json_parse_buffer reads the input
\* at the offsets 0..input_length-1 only, so that what follows them in the
\* buffer has no part in the outcome, it does not write to the input, and
\* its read position never exceeds input_length.
C27_ReadsInsideInput ==
    /\ [](WindowParsed => (result.str_pos <= call.str_len /\ SameBehindWindow))
    /\ [][input' = input]_vars

\* what is left to do: the bytes not yet read, the containers not yet left,
\* and the place in the code
Variant(m) ==
    4 * (m.p.str_len - m.p.str_pos) + 2 * Len(m.stack)
    + (IF m.pc = "loop" THEN 2 ELSE IF m.pc = "element" THEN 1 ELSE 0)

\* the parser is further than it was when the last iteration of the
\* innermost container's loop began: a byte was read or a token allocated
Progressed ==
    LET m == result.m
        top == result.tops[Len(result.tops)]
    IN  (AtLoopTop(m) /\ top # NoTop) =>
            \/ m.p.str_pos > top.str_pos
            \/ m.p.token_count > top.token_count

\* C28: for every finite input and every capacity the parse terminates:
\* every iteration of a loop reads at least one byte, allocates a token or
\* leaves the loop, so the number of steps is bounded by a function of the
\* length of the input alone.  (What is left to do is never negative and
\* gets less with every step, the steps made and what is left stay within
\* 4 * input_length + 1, and the code that has not returned can step.)
C28_Terminates ==
    /\ [](call.fn = "buffer" =>
            /\ Len(result.tops) = Len(result.m.stack)
            /\ Progressed
            /\ Variant(result.m) >= 0
            /\ result.steps + Variant(result.m) <= 4 * input.len + 1
            /\ ~Stopped(result.m) => result.steps < StepBudget(input.len)
            /\ skip_whitespace(result.m.p).str_pos <= input.len
            /\ result.returned =>
                   /\ result.ret = parse_json(Ptr(input.str), input.len, Ptr(before), size).ret
                   /\ tokens = parse_json(Ptr(input.str), input.len, Ptr(before), size).mem)
    /\ [][call.fn = "buffer" /\ ~result'.returned =>
             Variant(result'.m) < Variant(result.m)]_vars

\* an object in an array (or the like) has been parsed in more than
\* MaxNodes steps, two loops having gone round
C28_Witness ==
    /\ input.family = "doc"
    /\ "steps" \in DOMAIN result
    /\ result.returned
    /\ result.ret = MaxNodes - 1
    /\ result.steps > MaxNodes
    /\ \E i \in 1..(result.ret - 1) :
           /\ tokens[i].level = 1
           /\ tokens[i].type \in {MU_JSON_TOKEN_TYPE_ARRAY, MU_JSON_TOKEN_TYPE_OBJECT}
           /\ tokens[i].str_len > 2

\* one navigation function has been called on a token of a successful parse
Navigated == call.fn \in NavFunctions

\* the parse of the document has returned its token count and no navigation
\* function has been called yet
Parsed == call.fn = "buffer" /\ result.returned /\ result.ret > 0

\* the tokens from token on that mu_json_find_next_sibling_token leads to,
\* at most k of them
RECURSIVE SiblingsFrom(_, _, _)
SiblingsFrom(mem, token, k) ==
    IF token_is_null(token) \/ k = 0 THEN <<>>
    ELSE <<token>> \o SiblingsFrom(mem, mu_json_find_next_sibling_token(mem, token), k - 1)

\* the direct children of a token: its first child and that child's siblings
Children(mem, token) ==
    SiblingsFrom(mem, mu_json_find_child_token(mem, token), Cardinality(DOMAIN mem))

ScalarTypes ==
    {MU_JSON_TOKEN_TYPE_STRING, MU_JSON_TOKEN_TYPE_NUMBER, MU_JSON_TOKEN_TYPE_INTEGER,
     MU_JSON_TOKEN_TYPE_TRUE, MU_JSON_TOKEN_TYPE_FALSE, MU_JSON_TOKEN_TYPE_NULL}

\* the children of the object at token i are pairs of a STRING and a value
PairsBelow(mem, i) ==
    LET KeysAndValues(c) ==
            /\ Len(c) % 2 = 0
            /\ \A j \in DOMAIN c : j % 2 = 1 => mem[c[j]].type = MU_JSON_TOKEN_TYPE_STRING
    IN  KeysAndValues(Children(mem, i))

\* token i + 1 lies at most one level below token i, and one level below it
\* only if token i is a container that has a child
StepsDownOne(mem, i) ==
    /\ mem[i + 1].level <= mem[i].level + 1
    /\ mem[i + 1].level = mem[i].level + 1 =>
           /\ mem[i].type \in {MU_JSON_TOKEN_TYPE_ARRAY, MU_JSON_TOKEN_TYPE_OBJECT}
           /\ ~token_is_null(mu_json_find_child_token(mem, i))

\* C29: after every successful parse the direct children of every OBJECT
\* token are even in number and alternate key, value, with every key of type
\* STRING; the tokens of the scalar types have no child; and the level of
\* token i+1 is at most level(i)+1, with equality only when token i is a
\* non-empty container.
C29_TokenTree ==
    Parsed =>
        \A i \in NavTokens(input, result.ret) :
            /\ tokens[i].type = MU_JSON_TOKEN_TYPE_OBJECT => PairsBelow(tokens, i)
            /\ tokens[i].type \in ScalarTypes =>
                   token_is_null(mu_json_find_child_token(tokens, i))
            /\ i + 1 < result.ret => StepsDownOne(tokens, i)

\* the store with every token behind the first n replaced by the token c
Behind(mem, n, c) == [i \in DOMAIN mem |-> IF i >= n THEN c ELSE mem[i]]

\* what the memory behind the tokens of the parse may hold
Canaries == {ZeroToken, GarbageToken, [ZeroToken EXCEPT !.is_last = 1]}

\* the loop of find_sibling has left through one of its returns within as
\* many iterations as the store has tokens
WalkEnds(mem, token, m) ==
    \/ token_is_null(token) \/ token_is_first(mem, token)
    \/ find_sibling_loop(mem, mem[token].level, m, Walk(FALSE, token),
                         CeilLog2(Cardinality(DOMAIN mem))).done

\* C30: on any token of a successful parse that returned n, every
\* navigation function terminates, returns NULL or a token at an index in
\* 0..n-1, and returns the same whatever the memory behind token n-1 holds
\* (it reads the tokens 0..n-1 only).
C30_NavigationInStore ==
    Navigated =>
        /\ result.found \in {NULL} \cup 0..(result.ret - 1)
        /\ \A c \in Canaries :
               Navigate(call.fn, Behind(tokens, result.ret, c), result.token) = result.found
        /\ call.fn = "mu_json_find_next_sibling_token" =>
               WalkEnds(tokens, result.token, "next")
        /\ call.fn = "mu_json_find_prev_sibling_token" =>
               WalkEnds(tokens, result.token, "prev")

\* C30 witness: on the last token of a document of several tokens
\* mu_json_find_child_token has returned NULL and mu_json_find_root_token,
\* called on the same store, leads to token 0
C30_Witness ==
    /\ call.fn = "mu_json_find_child_token"
    /\ result.ret > 2
    /\ result.token = result.ret - 1
    /\ result.found = NULL
    /\ mu_json_find_root_token(tokens, result.token) = 0

====
